---- MODULE Spec2Model ----
(***************************************************************************)
(* crosses-utils: the turn manager (src/src/player_manager.rs) and the     *)
(* board engine (src/src/board_manager.rs) as state machines.              *)
(*                                                                         *)
(* The two components are independent in the source (neither calls the     *)
(* other), so each has its own specification over its own variables:       *)
(*   SpecPM  - PlayerManager::new / advance / reverse                      *)
(*   Spec    - BoardManager::make_move / cancel_move                       *)
(***************************************************************************)
EXTENDS Integers, Sequences, FiniteSets, TLC

(***************************************************************************)
(* Bounds of the model.                                                    *)
(***************************************************************************)
\* largest number of players a PlayerManager is created with
MaxPlayers == 3
\* largest max_moves a PlayerManager is created with
MaxMovesPerTurn == 2
\* largest number of advance/reverse calls made on a two-player PlayerManager
MaxCalls == 4
\* largest number of advance/reverse calls made on a PlayerManager of more
\* than two players
MaxWideCalls == 2
\* largest number of advance/reverse calls made in the long three-player game
MaxLongCalls == 7
\* modelled width of usize in bits (wrapping arithmetic of release builds)
UsizeBits == 16

UsizeModulus == 2 ^ UsizeBits

VARIABLES
    pm,          \* the PlayerManager struct
    pmBuild,     \* build profile, "unknown" until an unsigned subtraction underflows:
                 \* "checked" (overflow checks, the call panics) or "wrapping"
    pmStatus,    \* "running", or "panicked" once a call has aborted
    pmOp,        \* the last call: name, arguments, outcome
    pmOp2,       \* the name and outcome of the call before the last one
    pmPre,       \* the struct immediately before the last call
    pmPre2,      \* the struct immediately before the call before the last one
    pmLog,       \* the caller's log: the player who held the turn before each advance
    pmCalls,     \* number of advance/reverse calls made so far
    pmBudget,    \* number of advance/reverse calls the run may make in all
    pmQuiet      \* TRUE while every call so far was an advance with all-false predicates

pmVars ==
    <<pm, pmBuild, pmStatus, pmOp, pmOp2, pmPre, pmPre2, pmLog, pmCalls, pmBudget,
      pmQuiet>>

VARIABLES
    board,       \* the BoardManager: cells, moves counters, crosses counters
    history,     \* the caller's move log: index and, for a fill, the cross's owner
    ops,         \* number of successful calls made so far
    opsBudget,   \* number of successful calls the run may make in all
    bOp,         \* the last call: name, index, player, result
    bOp2,        \* the call before the last one
    bPre,        \* the board immediately before the last call
    bPre2        \* the board immediately before the call before the last one

boardVars == <<board, history, ops, opsBudget, bOp, bOp2, bPre, bPre2>>

vars == <<pmVars, boardVars>>

(***************************************************************************)
(* player_manager.rs: data                                                 *)
(***************************************************************************)
\* Option<LoseData>::None
NoLoss == [lost |-> FALSE, move_index |-> 0, remaining_moves |-> 0]

\* Some(LoseData { move_index, remaining_moves })
LoseData(move_index, remaining_moves) ==
    [lost |-> TRUE, move_index |-> move_index, remaining_moves |-> remaining_moves]

\* GameState::Ongoing
Ongoing == [tag |-> "Ongoing", winner |-> 0]
\* GameState::Ended(GameOver::Win(p))
Win(p) == [tag |-> "Win", winner |-> p]
\* GameState::Ended(GameOver::Draw)
Draw == [tag |-> "Draw", winner |-> 0]

\* PlayerManager::new
new(max_moves, max_players) ==
    [ remaining_moves |-> max_moves,
      max_moves       |-> max_moves,
      current_player  |-> 0,
      max_players     |-> max_players,
      losers          |-> [i \in 0 .. (max_players - 1) |-> NoLoss],
      current_move    |-> 0,
      game_state      |-> Ongoing ]

\* PlayerManager::count_not_losers
count_not_losers(s) ==
    Cardinality({i \in 0 .. (s.max_players - 1) : ~s.losers[i].lost})

\* next_player_idx with the scan starting at delta 0, at current_player itself
next_player_idx_from_self(s) ==
    LET found == {d \in 0 .. (s.max_players - 1) :
                     ~s.losers[(s.current_player + d) % s.max_players].lost}
    IN  IF found = {} THEN s.max_players
        ELSE LET d == CHOOSE x \in found : \A y \in found : x <= y
             IN  (s.current_player + d) % s.max_players

\* next_player_idx handing the turn to the next index, loser or not
next_player_idx_neighbour(s) == (s.current_player + 1) % s.max_players

\* PlayerManager::next_player_idx: the first non-loser after current_player;
\* max_players stands for reaching unreachable!()
next_player_idx(s) ==
    LET found == {d \in 1 .. (s.max_players - 1) :
                     ~s.losers[(s.current_player + d) % s.max_players].lost}
    IN  IF found = {} THEN s.max_players
        ELSE LET d == CHOOSE x \in found : \A y \in found : x <= y
             IN  (s.current_player + d) % s.max_players

\* check_loop marking an out-of-moves player while the count is above zero
RECURSIVE check_loop_lax(_, _, _, _, _, _, _)
check_loop_lax(s, losers, maybe, delta, check_all, oom, ooc) ==
    IF delta >= s.max_players THEN losers
    ELSE LET idx  == (s.current_player + delta) % s.max_players
             lose == LoseData(s.current_move, 0)
         IN  IF losers[idx].lost
             THEN check_loop_lax(s, losers, maybe, delta + 1, check_all, oom, ooc)
             ELSE IF ooc[idx]
             THEN check_loop_lax(s, [losers EXCEPT ![idx] = lose], maybe - 1,
                                 delta + 1, check_all, oom, ooc)
             ELSE IF oom[idx]
             THEN IF maybe > 0
                  THEN check_loop_lax(s, [losers EXCEPT ![idx] = lose], maybe,
                                      delta + 1, check_all, oom, ooc)
                  ELSE losers
             ELSE IF ~check_all
             THEN losers
             ELSE check_loop_lax(s, losers, maybe, delta + 1, check_all, oom, ooc)

\* check_loop sparing an out-of-crosses player when the count is down to one
RECURSIVE check_loop_sparing(_, _, _, _, _, _, _)
check_loop_sparing(s, losers, maybe, delta, check_all, oom, ooc) ==
    IF delta >= s.max_players THEN losers
    ELSE LET idx  == (s.current_player + delta) % s.max_players
             lose == LoseData(s.current_move, 0)
         IN  IF losers[idx].lost
             THEN check_loop_sparing(s, losers, maybe, delta + 1, check_all, oom, ooc)
             ELSE IF ooc[idx] /\ maybe > 1
             THEN check_loop_sparing(s, [losers EXCEPT ![idx] = lose], maybe - 1,
                                     delta + 1, check_all, oom, ooc)
             ELSE IF oom[idx]
             THEN IF maybe > 1
                  THEN check_loop_sparing(s, [losers EXCEPT ![idx] = lose], maybe,
                                          delta + 1, check_all, oom, ooc)
                  ELSE losers
             ELSE IF ~check_all
             THEN losers
             ELSE check_loop_sparing(s, losers, maybe, delta + 1, check_all, oom, ooc)

\* check_loop taking an out-of-moves player for one who can move
RECURSIVE check_loop_crosses_only(_, _, _, _, _, _, _)
check_loop_crosses_only(s, losers, maybe, delta, check_all, oom, ooc) ==
    IF delta >= s.max_players THEN losers
    ELSE LET idx  == (s.current_player + delta) % s.max_players
             lose == LoseData(s.current_move, 0)
         IN  IF losers[idx].lost
             THEN check_loop_crosses_only(s, losers, maybe, delta + 1, check_all,
                                          oom, ooc)
             ELSE IF ooc[idx]
             THEN check_loop_crosses_only(s, [losers EXCEPT ![idx] = lose],
                                          maybe - 1, delta + 1, check_all, oom, ooc)
             ELSE IF ~check_all
             THEN losers
             ELSE check_loop_crosses_only(s, losers, maybe, delta + 1, check_all,
                                          oom, ooc)

\* the for loop of check_if_other_players_have_lost from index delta on;
\* maybe is the local maybe_not_losers
RECURSIVE check_loop(_, _, _, _, _, _, _)
check_loop(s, losers, maybe, delta, check_all, oom, ooc) ==
    IF delta >= s.max_players THEN losers
    ELSE LET idx  == (s.current_player + delta) % s.max_players
             lose == LoseData(s.current_move, 0)
         IN  IF losers[idx].lost
             THEN check_loop(s, losers, maybe, delta + 1, check_all, oom, ooc)
             ELSE IF ooc[idx]
             THEN check_loop(s, [losers EXCEPT ![idx] = lose], maybe - 1,
                             delta + 1, check_all, oom, ooc)
             ELSE IF oom[idx]
             THEN IF maybe > 1
                  THEN check_loop(s, [losers EXCEPT ![idx] = lose], maybe,
                                  delta + 1, check_all, oom, ooc)
                  ELSE losers
             ELSE IF ~check_all
             THEN losers
             ELSE check_loop(s, losers, maybe, delta + 1, check_all, oom, ooc)

\* check_if_other_players_have_lost counting the non-losers one too many
check_if_other_players_have_lost_off(s, check_all, oom, ooc) ==
    [s EXCEPT !.losers =
        check_loop(s, s.losers, count_not_losers(s) + 1, 1, check_all, oom, ooc)]

\* PlayerManager::check_if_other_players_have_lost
check_if_other_players_have_lost(s, check_all, oom, ooc) ==
    [s EXCEPT !.losers =
        check_loop(s, s.losers, count_not_losers(s), 1, check_all, oom, ooc)]

\* advance_settle naming the player who moved as the winner
advance_settle_mover_wins(s) ==
    LET n == count_not_losers(s)
    IN  IF n = 0 THEN [s EXCEPT !.game_state = Draw]
        ELSE IF n = 1 THEN [s EXCEPT !.game_state = Win(s.current_player)]
        ELSE [s EXCEPT !.current_player = next_player_idx(s),
                       !.remaining_moves = s.max_moves]

\* advance_settle passing the turn without resetting remaining_moves
advance_settle_keep(s) ==
    LET n == count_not_losers(s)
    IN  IF n = 0 THEN [s EXCEPT !.game_state = Draw]
        ELSE IF n = 1
        THEN [s EXCEPT !.game_state =
                 Win(CHOOSE i \in 0 .. (s.max_players - 1) : ~s.losers[i].lost)]
        ELSE [s EXCEPT !.current_player = next_player_idx(s)]

\* the match on count_not_losers() in advance
advance_settle(s) ==
    LET n == count_not_losers(s)
    IN  IF n = 0 THEN [s EXCEPT !.game_state = Draw]
        ELSE IF n = 1
        THEN [s EXCEPT !.game_state =
                 Win(CHOOSE i \in 0 .. (s.max_players - 1) :
                        /\ ~s.losers[i].lost
                        /\ \A j \in 0 .. (s.max_players - 1) :
                              ~s.losers[j].lost => i <= j)]
        ELSE [s EXCEPT !.current_player = next_player_idx(s),
                       !.remaining_moves = s.max_moves]

\* advance_panics without the game_state guard
advance_panics_unguarded(s, checked) == s.remaining_moves = 0 /\ checked

\* advance panics: the game is over, or remaining_moves -= 1 underflows
\* in a build with overflow checks
advance_panics(s, checked) ==
    \/ s.game_state # Ongoing
    \/ (s.remaining_moves = 0 /\ checked)

\* advance subtracts below zero
advance_underflows(s) == s.game_state = Ongoing /\ s.remaining_moves = 0

\* PlayerManager::advance, when it does not panic
advance(s, oom, ooc) ==
    LET s1 == [s EXCEPT !.remaining_moves = (s.remaining_moves - 1) % UsizeModulus]
        budget_out == s1.remaining_moves = 0
        cur_out    == ~budget_out /\ oom[s1.current_player]
        s2 == IF cur_out
              THEN [s1 EXCEPT !.losers[s1.current_player] =
                       LoseData(s1.current_move, s1.remaining_moves)]
              ELSE s1
        s3 == IF budget_out \/ cur_out
              THEN advance_settle(
                       check_if_other_players_have_lost(s2, cur_out, oom, ooc))
              ELSE s2
    IN  [s3 EXCEPT !.current_move = s3.current_move + 1]

\* the loop of reverse that clears the losers of the undone move, from
\* loser_idx up to and including current_player; fuel bounds the recursion
RECURSIVE reverse_loop(_, _, _, _)
reverse_loop(s, losers, loser_idx, fuel) ==
    LET l1 == IF losers[loser_idx].lost
                 /\ losers[loser_idx].move_index = s.current_move
              THEN [losers EXCEPT ![loser_idx] = NoLoss]
              ELSE losers
    IN  IF loser_idx = s.current_player \/ fuel = 0 THEN l1
        ELSE reverse_loop(s, l1, (loser_idx + 1) % s.max_players, fuel - 1)

\* reverse panics: current_move -= 1 underflows in a build with overflow checks
reverse_panics(s, checked) == s.current_move = 0 /\ checked

\* reverse subtracts below zero
reverse_underflows(s) == s.current_move = 0

\* PlayerManager::reverse, when it does not panic
reverse(s, player) ==
    LET s1 == [s EXCEPT !.current_move = (s.current_move - 1) % UsizeModulus]
        s2 == IF s1.losers[player].lost
              THEN [s1 EXCEPT
                       !.remaining_moves = s1.losers[player].remaining_moves,
                       !.losers = reverse_loop(s1, s1.losers, player, s1.max_players)]
              ELSE [s1 EXCEPT
                       !.remaining_moves =
                           IF s1.remaining_moves = 0 THEN s1.max_moves
                           ELSE s1.remaining_moves - 1]
    IN  [s2 EXCEPT !.current_player = player]

(***************************************************************************)
(* The turn manager as a state machine                                     *)
(***************************************************************************)
NoPred == [i \in 0 .. (MaxPlayers - 1) |-> FALSE]

NoOp == [name |-> "new", player |-> 0, oom |-> NoPred, ooc |-> NoPred,
         outcome |-> "ok"]

\* the state after PlayerManager::new(max_moves, max_players, [None; ..]),
\* with budget calls to follow
PMCreated(max_moves, max_players, budget) ==
    /\ pm = new(max_moves, max_players)
    /\ pmBudget = budget
    /\ pmBuild = "unknown"
    /\ pmStatus = "running"
    /\ pmOp = NoOp
    /\ pmOp2 = [name |-> "new", outcome |-> "ok"]
    /\ pmPre = pm
    /\ pmPre2 = pm
    /\ pmLog = <<>>
    /\ pmCalls = 0
    /\ pmQuiet = TRUE

\* games of every size, the two-player ones followed further
PMInit ==
    \E m \in 1 .. MaxMovesPerTurn, n \in 2 .. MaxPlayers :
        PMCreated(m, n, IF n = 2 THEN MaxCalls ELSE MaxWideCalls)

\* one three-player game with one move per turn, followed far
PMInitLong == PMCreated(1, 3, MaxLongCalls)

\* the build profiles a call may run under: the one already observed, or
\* either one when the call is the first to underflow
Profiles(underflows) ==
    IF pmBuild # "unknown" THEN {pmBuild}
    ELSE IF underflows THEN {"checked", "wrapping"}
    ELSE {"unknown"}

\* the predicates the caller passes, as tables over the player indices
Preds(n) ==
    {f \in [0 .. (MaxPlayers - 1) -> BOOLEAN] :
        \A i \in 0 .. (MaxPlayers - 1) : i >= n => ~f[i]}

\* one call of advance(is_ran_out_of_moves, is_ran_out_of_crosses)
Advance(oom, ooc) ==
    /\ pmStatus = "running"
    /\ pmCalls < pmBudget
    /\ oom \in Preds(pm.max_players)
    /\ ooc \in Preds(pm.max_players)
    /\ UNCHANGED boardVars
    /\ pmCalls' = pmCalls + 1
    /\ pmBudget' = pmBudget
    /\ pmPre' = pm
    /\ pmPre2' = pmPre
    /\ pmOp2' = [name |-> pmOp.name, outcome |-> pmOp.outcome]
    /\ pmBuild' \in Profiles(advance_underflows(pm))
    /\ IF advance_panics(pm, pmBuild' = "checked")
       THEN /\ pm' = pm
            /\ pmStatus' = "panicked"
            /\ pmOp' = [name |-> "advance", player |-> pm.current_player,
                        oom |-> oom, ooc |-> ooc, outcome |-> "panic"]
            /\ UNCHANGED <<pmLog, pmQuiet>>
       ELSE /\ pm' = advance(pm, oom, ooc)
            /\ pmStatus' = "running"
            /\ pmOp' = [name |-> "advance", player |-> pm.current_player,
                        oom |-> oom, ooc |-> ooc, outcome |-> "ok"]
            /\ pmLog' = Append(pmLog, pm.current_player)
            /\ pmQuiet' = (pmQuiet /\ oom = NoPred /\ ooc = NoPred)

\* one call of reverse(player), the caller following the stack discipline:
\* player is the one who held the turn before the advance being undone
Reverse ==
    /\ UNCHANGED boardVars
    /\ pmStatus = "running"
    /\ pmLog # <<>>
    /\ pmCalls < pmBudget
    /\ pmCalls' = pmCalls + 1
    /\ pmBudget' = pmBudget
    /\ LET player == pmLog[Len(pmLog)]
       IN  /\ pmPre' = pm
           /\ pmPre2' = pmPre
           /\ pmOp2' = [name |-> pmOp.name, outcome |-> pmOp.outcome]
           /\ pmQuiet' = FALSE
           /\ pmBuild' \in Profiles(reverse_underflows(pm))
           /\ IF reverse_panics(pm, pmBuild' = "checked")
              THEN /\ pm' = pm
                   /\ pmStatus' = "panicked"
                   /\ pmOp' = [name |-> "reverse", player |-> player,
                               oom |-> NoPred, ooc |-> NoPred, outcome |-> "panic"]
                   /\ UNCHANGED pmLog
              ELSE /\ pm' = reverse(pm, player)
                   /\ pmStatus' = "running"
                   /\ pmOp' = [name |-> "reverse", player |-> player,
                               oom |-> NoPred, ooc |-> NoPred, outcome |-> "ok"]
                   /\ pmLog' = SubSeq(pmLog, 1, Len(pmLog) - 1)

(***************************************************************************)
(* Claims about the turn manager                                           *)
(***************************************************************************)
\* the last two calls were a successful advance and then its reverse
PMRoundTrip ==
    /\ pmOp.name = "reverse" /\ pmOp.outcome = "ok"
    /\ pmOp2.name = "advance" /\ pmOp2.outcome = "ok"

\* C2: reverse is the strict inverse of advance: after advance followed by
\* reverse(p), p the player who held the turn before that advance,
\* remaining_moves, current_player, current_move, game_state and losers are
\* the values they had before the advance.
C2_ReverseInvertsAdvance == PMRoundTrip => pm = pmPre2

\* C8 as stated: advance on an Ended manager does not abort and leaves the
\* struct unchanged.
C8_AdvanceOnEndedReports ==
    (pmOp.name = "advance" /\ pmPre.game_state # Ongoing)
        => (pmStatus = "running" /\ pmOp.outcome = "ok" /\ pm = pmPre)

\* C8 amended: advance on an Ended manager aborts (panics) before touching
\* any field: remaining_moves, current_player, current_move, losers and
\* game_state are the values held before the call.
C8_AdvanceOnEndedPanics ==
    (pmOp.name = "advance" /\ pmPre.game_state # Ongoing)
        => (pmStatus = "panicked" /\ pmOp.outcome = "panic" /\ pm = pmPre)

C8_Witness ==
    /\ pmOp.name = "advance"
    /\ pmPre.game_state.tag \in {"Win", "Draw"}
    /\ pmStatus = "panicked"

\* the last call was the first advance on a fresh 2-player manager, with
\* is_out_of_moves(0) true and is_out_of_crosses false for both players
C9_Case ==
    /\ pmCalls = 1
    /\ pmOp.name = "advance"
    /\ pmPre = new(pmPre.max_moves, 2)
    /\ pmOp.oom[0]
    /\ ~pmOp.ooc[0] /\ ~pmOp.ooc[1]

\* C9 as stated: for any max_moves >= 1 that first advance records player 0
\* as a loser and ends the game with Win(1).
C9_FirstAdvanceOutOfMoves ==
    C9_Case => (pm.losers[0].lost /\ pm.game_state = Win(1))

\* C9 amended: for any max_moves >= 2 (the budget is not exhausted by the
\* same call) that first advance records player 0 as a loser and ends the
\* game with Win(1).
C9_FirstAdvanceOutOfMovesBudgetLeft ==
    (C9_Case /\ pmPre.max_moves >= 2)
        => (pm.losers[0].lost /\ pm.game_state = Win(1))

C9_Witness ==
    /\ C9_Case /\ pmPre.max_moves >= 2
    /\ pmOp.oom[1]
    /\ pm.losers[0] = LoseData(0, pmPre.max_moves - 1)
    /\ pm.game_state = Win(1)

\* C10: while both predicates have always returned false, every advance
\* keeps the game Ongoing, marks no loser, and current_player cycles
\* 0,1,...,N-1,0,... changing exactly after every max_moves-th call.
C10_QuietCycle ==
    pmQuiet =>
        /\ pmStatus = "running"
        /\ pm.game_state = Ongoing
        /\ \A i \in 0 .. (pm.max_players - 1) : ~pm.losers[i].lost
        /\ pm.current_move = pmCalls
        /\ pm.current_player = (pmCalls \div pm.max_moves) % pm.max_players
        /\ pm.remaining_moves = pm.max_moves - (pmCalls % pm.max_moves)

C10_Witness ==
    /\ pmQuiet
    /\ pm.max_moves = 1 /\ pm.max_players = 2
    /\ pmCalls >= 3
    /\ pm.current_player = 1
    /\ pmPre.current_player = 0

\* every call so far was an advance that returned
AdvancesOnly == pmStatus = "running" /\ Len(pmLog) = pmCalls

\* the number of entries at the end of log that are player p: the advance
\* calls made since p received the turn, the log holding one entry per advance
RECURSIVE TurnCalls(_, _)
TurnCalls(log, p) ==
    IF log = <<>> \/ log[Len(log)] # p THEN 0
    ELSE 1 + TurnCalls(SubSeq(log, 1, Len(log) - 1), p)

\* C11: after any sequence of advance calls from new, remaining_moves plus
\* the number of advance calls made since the current player received the
\* turn equals max_moves.
C11_TurnBudget ==
    AdvancesOnly =>
        pm.remaining_moves + TurnCalls(pmLog, pm.current_player) = pm.max_moves

C11_Witness ==
    /\ AdvancesOnly
    /\ pmCalls >= 3
    /\ pm.max_moves = 2
    /\ pm.current_player = 1
    /\ TurnCalls(pmLog, pm.current_player) = 1
    /\ pm.remaining_moves = 1

\* C12: once losers[i] holds Some(LoseData{move_index: m, ..}) no advance
\* changes that entry, and a reverse changes it only by resetting it to None
\* while taking current_move back to exactly m.
C12_EliminationMonotone ==
    \A i \in 0 .. (pm.max_players - 1) :
        (pmPre.losers[i].lost /\ pm.losers[i] # pmPre.losers[i])
            => /\ pmOp.name = "reverse"
               /\ pm.losers[i] = NoLoss
               /\ pm.current_move = pmPre.losers[i].move_index

\* the last call was an advance that returned
Advanced == pmOp.name = "advance" /\ pmOp.outcome = "ok"

\* that advance marked the player who moved as out of moves (should_check_everyone)
MoverOut == pmPre.remaining_moves # 1 /\ pmOp.oom[pmPre.current_player]

\* that advance ran the elimination step (should_change_player)
Eliminated == Advanced /\ (pmPre.remaining_moves = 1 \/ MoverOut)

\* the players of s that are not losers
NotLosers(s) == {i \in 0 .. (s.max_players - 1) : ~s.losers[i].lost}

\* C15: when advance runs the elimination step, the number of non-losers
\* after the scan decides game_state: none gives Ended(Draw), exactly one
\* gives Ended(Win(p)) for that one player p, two or more leave it Ongoing.
C15_OutcomeByCount ==
    Eliminated =>
        LET left == NotLosers(pm)
        IN  /\ left = {} => pm.game_state = Draw
            /\ \A p \in left : left = {p} => pm.game_state = Win(p)
            /\ Cardinality(left) >= 2 => pm.game_state = Ongoing

C15_Witness ==
    /\ Eliminated
    /\ pm.max_players = 3
    /\ pmPre.current_player = 0
    /\ NotLosers(pm) = {2}
    /\ pm.game_state = Win(2)

\* the place of player i in the scan that starts after player from
ScanPlace(s, from, i) == (i - from) % s.max_players

\* C16: when advance passes the turn and the game continues, the new
\* current_player is not the player who moved, is not a loser, every player
\* between the two in cyclic index order is a loser, and remaining_moves is
\* max_moves.
C16_TurnPassesToNext ==
    (Eliminated /\ pm.game_state = Ongoing) =>
        /\ pm.current_player # pmPre.current_player
        /\ pm.current_player \in NotLosers(pm)
        /\ \A i \in 0 .. (pm.max_players - 1) :
              (/\ i # pmPre.current_player
               /\ ScanPlace(pm, pmPre.current_player, i)
                     < ScanPlace(pm, pmPre.current_player, pm.current_player))
                 => pm.losers[i].lost
        /\ pm.remaining_moves = pm.max_moves

C16_Witness ==
    /\ Eliminated /\ pm.game_state = Ongoing
    /\ pm.max_players = 3
    /\ pmPre.current_player = 0
    /\ pm.losers[1].lost
    /\ pm.current_player = 2

\* the last call turned player i from a non-loser into a loser
NewlyLost(i) == ~pmPre.losers[i].lost /\ pm.losers[i].lost

\* the scan of the last advance marked player i for being out of moves
\* while not out of crosses
ScanOutOfMoves(i) ==
    /\ Advanced
    /\ i # pmPre.current_player
    /\ NewlyLost(i)
    /\ ~pmOp.ooc[i]

\* the count of non-losers the scan holds when it comes to player i: the
\* non-losers at the start of the scan less the out-of-crosses eliminations
\* among the players scanned before i
ScanCount(i) ==
    LET cur   == pmPre.current_player
        start == NotLosers(pmPre) \ (IF MoverOut THEN {cur} ELSE {})
        gone  == {j \in 0 .. (pm.max_players - 1) :
                     /\ j # cur
                     /\ ScanPlace(pm, cur, j) < ScanPlace(pm, cur, i)
                     /\ NewlyLost(j)
                     /\ pmOp.ooc[j]}
    IN  Cardinality(start) - Cardinality(gone)

\* C17 as stated: the scan marks a player for being out of moves only if at
\* least two non-losers are left after the call.
C17_TwoLeftAfterwards ==
    \A i \in 0 .. (pm.max_players - 1) :
        ScanOutOfMoves(i) => Cardinality(NotLosers(pm)) >= 2

\* C17 amended: the scan marks a player for being out of moves only if its
\* count of non-losers is at least two when it comes to that player, the
\* player included; the count is lowered by out-of-crosses eliminations only.
C17_CountAtLeastTwo ==
    \A i \in 0 .. (pm.max_players - 1) :
        ScanOutOfMoves(i) => ScanCount(i) >= 2

C17_Witness ==
    /\ pm.max_players = 3
    /\ pmPre.current_player = 0
    /\ ~MoverOut
    /\ ScanOutOfMoves(2)
    /\ NewlyLost(1) /\ pmOp.ooc[1]
    /\ ScanCount(2) = 2

\* C18: when is_out_of_crosses is false for every player, no advance
\* eliminates the last remaining non-loser or sets game_state to Ended(Draw).
C18_LastCandidateKept ==
    (Advanced /\ \A i \in 0 .. (pm.max_players - 1) : ~pmOp.ooc[i])
        => (NotLosers(pm) # {} /\ pm.game_state # Draw)

\* the scan of the last advance went past player j without stopping: j was
\* a loser already, or was out of crosses, or was out of moves and marked,
\* or was neither while everyone was to be checked
ScanWentPast(j) ==
    \/ pmPre.losers[j].lost
    \/ pmOp.ooc[j]
    \/ pmOp.oom[j] /\ pm.losers[j].lost
    \/ ~pmOp.oom[j] /\ MoverOut

\* the scan of the last advance came to player i
ScanReached(i) ==
    /\ Eliminated
    /\ i # pmPre.current_player
    /\ \A j \in 0 .. (pm.max_players - 1) :
          (/\ j # pmPre.current_player
           /\ ScanPlace(pm, pmPre.current_player, j)
                 < ScanPlace(pm, pmPre.current_player, i))
             => ScanWentPast(j)

\* C19: every non-loser the scan of an advance comes to and for which
\* is_out_of_crosses is true is marked a loser with move_index the current
\* move index, however many non-losers remain.
C19_OutOfCrossesAlwaysLoses ==
    \A i \in 0 .. (pm.max_players - 1) :
        (ScanReached(i) /\ ~pmPre.losers[i].lost /\ pmOp.ooc[i])
            => (pm.losers[i].lost /\ pm.losers[i].move_index = pmPre.current_move)

C19_Witness ==
    /\ pm.max_players = 3
    /\ pmPre.current_player = 0
    /\ MoverOut
    /\ ScanReached(2) /\ pmOp.ooc[2] /\ NewlyLost(2)
    /\ NewlyLost(1)
    /\ NotLosers(pm) = {}
    /\ pm.game_state = Draw

\* the last call was a reverse that did not panic
Reversed == pmOp.name = "reverse" /\ pmOp.outcome = "ok"

\* the players whose LoseData carried, when reverse was called, the index of
\* the move it undoes
LostAtUndone ==
    {i \in 0 .. (pm.max_players - 1) :
        pmPre.losers[i].lost /\ pmPre.losers[i].move_index = pm.current_move}

\* C32: reverse un-marks exactly the players eliminated by the undone move:
\* after reverse(previous_player) every player whose LoseData.move_index is
\* the index of the move being undone is a non-loser again, and no other
\* player's loser entry is changed.
C32_ReverseUnmarksExactly ==
    Reversed =>
        \A i \in 0 .. (pm.max_players - 1) :
            IF i \in LostAtUndone THEN ~pm.losers[i].lost
            ELSE pm.losers[i] = pmPre.losers[i]

\* the last two calls were an advance that ended the game and its reverse
EndingMoveUndone == PMRoundTrip /\ pmPre.game_state # Ongoing

\* C33: undo of a game-ending move: if an advance call set game_state to
\* Ended(Win or Draw), the matching reverse call returns game_state to
\* Ongoing, so that a subsequent advance is accepted again.
C33_EndingMoveUndone ==
    EndingMoveUndone => (pm.game_state = Ongoing /\ ~advance_panics(pm, FALSE))

\* the last two calls were an advance that eliminated nobody and its reverse
QuietMoveUndone == PMRoundTrip /\ pmPre.losers = pmPre2.losers

\* C34: reverse increments the move budget: for an advance that eliminated
\* nobody, the matching reverse restores the remaining_moves held before the
\* advance: r-1 goes back to r when the turn did not pass, and the reset
\* value max_moves goes back to 1 when the turn passed on budget exhaustion.
C34_ReverseRestoresBudget ==
    QuietMoveUndone => pm.remaining_moves = pmPre2.remaining_moves

\* C36: budget range and no underflow: in every state reached from
\* new(max_moves >= 1, ..) by advance calls and stack-disciplined reverse
\* calls, 1 <= remaining_moves <= max_moves holds while game_state is Ongoing,
\* and no unsigned subtraction has gone below zero.
C36_BudgetInRange ==
    /\ pm.game_state = Ongoing =>
          (1 <= pm.remaining_moves /\ pm.remaining_moves <= pm.max_moves)
    /\ pmBuild = "unknown"

\* the last call was an advance that passed the turn, the game going on
TurnPassed == Eliminated /\ pm.game_state = Ongoing

\* C37: the player who receives the turn can move: whenever an advance call
\* passes the turn and the game stays Ongoing, the new current_player is a
\* non-loser for whom the predicates of that call reported neither
\* out-of-crosses nor out-of-moves.
C37_NextPlayerCanMove ==
    TurnPassed =>
        /\ ~pm.losers[pm.current_player].lost
        /\ ~pmOp.ooc[pm.current_player]
        /\ ~pmOp.oom[pm.current_player]

\* the turn went from player 0 past player 1, whom the scan had just
\* eliminated for being out of moves, to player 2
C37_Witness ==
    /\ TurnPassed
    /\ pm.max_players = 3
    /\ pmPre.current_player = 0
    /\ NewlyLost(1) /\ pmOp.oom[1] /\ ~pmOp.ooc[1]
    /\ pm.current_player = 2

(***************************************************************************)
(* board_manager.rs: the board                                             *)
(***************************************************************************)
\* interior columns and rows of the board; a ring of Border cells surrounds them
Cols == 3
Rows == 3
\* the interior rows a game is set up on; the rows below them are walled
\* off with Border cells
FieldRows == 2
\* number of players on the board
BoardPlayers == 2
\* largest value a cell's per-player activation counter can hold
MaxActivation == 2
\* largest number of successful make_move/cancel_move calls on one board
MaxOps == 3
\* largest number of successful calls in the long game on the started board
MaxLongOps == 7
\* failed calls are tried on the boards up to this many successful calls deep
MaxProbeOps == 2
\* largest number of successful calls that follow the opening of the middle game
MaxMidOps == 3

Width == Cols + 2
Height == Rows + 2
Indices == 0 .. (Width * Height - 1)
Players == 0 .. (BoardPlayers - 1)
NoIndex == 0 - 1

IsBorderIndex(i) ==
    \/ i % Width = 0 \/ i % Width = Width - 1
    \/ i \div Width = 0 \/ i \div Width = Height - 1

Interior == {i \in Indices : ~IsBorderIndex(i)}

\* the interior cells of the rows a game is set up on
Field == {i \in Interior : i \div Width <= FieldRows}

\* the 8-neighbourhood of every interior cell, row by row
Neighbourhood ==
    [i \in Interior |->
        << i - Width - 1, i - Width, i - Width + 1,
           i - 1,                    i + 1,
           i + Width - 1, i + Width, i + Width + 1 >>]

\* BoardManager::adjacent
adjacent(i) == Neighbourhood[i]

NeighbourSets == [i \in Interior |-> {Neighbourhood[i][k] : k \in 1 .. 8}]

AdjSet(i) == NeighbourSets[i]

(***************************************************************************)
(* trait Cell: a cell value.  Fields that a kind does not carry are kept   *)
(* at their default so that equal cells are equal records.                 *)
(***************************************************************************)
NoActivity == [p \in Players |-> 0]

EmptyCell ==
    [kind |-> "Empty", player |-> 0, act |-> NoActivity, overheat |-> FALSE,
     important |-> FALSE, alive |-> FALSE]

BorderCell == [EmptyCell EXCEPT !.kind = "Border"]

\* Cell::is_active
is_active(cell, player) == cell.act[player] > 0

\* Cell::activate: a saturating counter; Overheat when it cannot count further
activate(cell, player) ==
    IF cell.act[player] >= MaxActivation
    THEN [cell |-> cell, status |-> "Overheat"]
    ELSE [cell |-> [cell EXCEPT !.act[player] = @ + 1], status |-> "Regular"]

\* Cell::deactivate: Zero when the counter reaches zero
deactivate(cell, player) ==
    LET n == IF cell.act[player] > 0 THEN cell.act[player] - 1 ELSE 0
    IN  [cell |-> [cell EXCEPT !.act[player] = n],
         status |-> IF n = 0 THEN "Zero" ELSE "Regular"]

\* Cell::reset_activity
reset_activity(cell) == [cell EXCEPT !.act = NoActivity]

\* Cell::set_overheat
set_overheat(cell, value) == [cell EXCEPT !.overheat = value]

\* Cell::set_important
set_important(cell, value) == [cell EXCEPT !.important = value]

\* Cell::set_alive
set_alive(cell, value) == [cell EXCEPT !.alive = value]

\* Cell::cross_out: Empty -> Cross(player), not important; the owner's own
\* activity is dropped (a Cross is never active for its owner)
cross_out(cell, player) ==
    [cell EXCEPT !.kind = "Cross", !.player = player, !.important = FALSE,
                 !.act[player] = 0]

\* Cell::fill: Cross -> Filled(player), alive and not important
fill(cell, player) ==
    [cell EXCEPT !.kind = "Filled", !.player = player, !.alive = TRUE,
                 !.important = FALSE, !.act = NoActivity, !.overheat = FALSE]

\* Cell::remove_fill: Filled -> Cross(player), deactivated for all players
remove_fill(cell, player) ==
    [cell EXCEPT !.kind = "Cross", !.player = player, !.alive = FALSE,
                 !.act = NoActivity, !.overheat = FALSE]

\* Cell::remove_cross: Cross -> Empty, activated for the cross's owner
remove_cross(cell) ==
    [activate([cell EXCEPT !.kind = "Empty"], cell.player).cell
        EXCEPT !.player = 0, !.important = FALSE]

(***************************************************************************)
(* trait BoardManager: storage, counters, traverse                         *)
(***************************************************************************)
\* BoardManager::get
get(m, index) == m.cells[index]

\* BoardManager::set
set(m, index, cell) == [m EXCEPT !.cells[index] = cell]

\* BoardManager::add_to_moves_counter
add_to_moves_counter(m, player, amount) == [m EXCEPT !.moves[player] = @ + amount]

\* BoardManager::add_to_crosses_counter
add_to_crosses_counter(m, player, amount) == [m EXCEPT !.crosses[player] = @ + amount]

\* the chain traverse walks from a Filled cell: the connected Filled cells of its owner
RECURSIVE chain_grow(_, _, _)
chain_grow(cells, owner, seen) ==
    LET more == {j \in Interior \ seen :
                    /\ cells[j].kind = "Filled"
                    /\ cells[j].player = owner
                    /\ \E i \in seen : j \in AdjSet(i)}
    IN  IF more = {} THEN seen ELSE chain_grow(cells, owner, seen \cup more)

chain(cells, start) == chain_grow(cells, cells[start].player, {start})

\* the cells of a set in the order the traverse visits them
RECURSIVE visit_order(_, _)
visit_order(S, order) ==
    IF S = {} THEN <<>>
    ELSE LET x == IF order = "ascending"
                  THEN CHOOSE a \in S : \A b \in S : a <= b
                  ELSE CHOOSE a \in S : \A b \in S : a >= b
         IN  <<x>> \o visit_order(S \ {x}, order)

(***************************************************************************)
(* board_manager.rs: the engine's helper functions.  Every helper takes    *)
(* the manager m and returns the manager it leaves; a helper that works on *)
(* the caller's local copy of a cell returns that copy beside it.          *)
(***************************************************************************)
\* rebuild_activity: recount the local cell's activity from its neighbours on the board
RECURSIVE rebuild_loop(_, _, _, _)
rebuild_loop(m, adj, k, cell) ==
    IF k > Len(adj) THEN cell
    ELSE LET adjacent_cell == get(m, adj[k])
             counted == \/ adjacent_cell.kind = "Cross"
                        \/ (adjacent_cell.kind = "Filled" /\ adjacent_cell.alive)
             own == cell.kind = "Cross" /\ adjacent_cell.player = cell.player
             r == activate(cell, adjacent_cell.player)
         IN  IF counted /\ ~own
             THEN rebuild_loop(m, adj, k + 1,
                      IF r.status = "Overheat" THEN set_overheat(r.cell, TRUE)
                      ELSE r.cell)
             ELSE rebuild_loop(m, adj, k + 1, cell)

rebuild_activity(m, index, cell) ==
    rebuild_loop(m, adjacent(index), 1, set_overheat(reset_activity(cell), FALSE))

\* try_activate without the test for a Cross of the player itself
try_activate_unguarded(m, cell, player) ==
    LET m1 == IF ~is_active(cell, player) THEN add_to_moves_counter(m, player, 1)
              ELSE m
        r  == activate(cell, player)
    IN  [m |-> m1,
         cell |-> IF r.status = "Overheat" THEN set_overheat(r.cell, TRUE)
                  ELSE r.cell]

\* try_activate
try_activate(m, cell, player) ==
    LET m1 == IF ~is_active(cell, player) THEN add_to_moves_counter(m, player, 1)
              ELSE m
        r  == activate(cell, player)
    IN  IF cell.kind = "Cross" /\ player = cell.player
        THEN [m |-> m1, cell |-> cell]
        ELSE [m |-> m1,
              cell |-> IF r.status = "Overheat" THEN set_overheat(r.cell, TRUE)
                       ELSE r.cell]

\* try_deactivate; asserted records that the debug assertion would fire
try_deactivate(m, cell, index, player) ==
    IF ~is_active(cell, player) THEN [m |-> m, cell |-> cell]
    ELSE LET m0 == IF cell.kind = "Cross" /\ cell.player = player
                   THEN [m EXCEPT !.asserted = TRUE] ELSE m
             r  == deactivate(cell, player)
             rebuilt == rebuild_activity(m0, index, r.cell)
         IN  IF r.status # "Zero" THEN [m |-> m0, cell |-> r.cell]
             ELSE IF r.cell.overheat
             THEN [m |-> IF is_active(rebuilt, player)
                         THEN add_to_moves_counter(m0, player, -1) ELSE m0,
                   cell |-> rebuilt]
             ELSE [m |-> add_to_moves_counter(m0, player, -1), cell |-> r.cell]

\* the inner loop of revive_strategy over the neighbours of a chain cell
RECURSIVE revive_neighbours(_, _, _, _)
revive_neighbours(m, adj, k, player) ==
    IF k > Len(adj) THEN m
    ELSE LET adjacent_cell == get(m, adj[k])
             r == try_activate(m, adjacent_cell, player)
         IN  IF adjacent_cell.kind \in {"Cross", "Empty"}
             THEN revive_neighbours(set(r.m, adj[k], r.cell), adj, k + 1, player)
             ELSE revive_neighbours(m, adj, k + 1, player)

\* revive_strategy
revive_strategy(m, index, player) ==
    LET cell == get(m, index)
    IN  IF cell.kind = "Filled" /\ cell.player = player
        THEN revive_neighbours(set(m, index, set_alive(cell, TRUE)),
                               adjacent(index), 1, player)
        ELSE m

\* the inner loop of kill_strategy over the neighbours of a chain cell
RECURSIVE kill_neighbours(_, _, _, _)
kill_neighbours(m, adj, k, player) ==
    IF k > Len(adj) THEN m
    ELSE LET adjacent_cell == get(m, adj[k])
             r == try_deactivate(m, adjacent_cell, adj[k], player)
         IN  IF adjacent_cell.kind \in {"Cross", "Empty"}
             THEN kill_neighbours(set(r.m, adj[k], r.cell), adj, k + 1, player)
             ELSE kill_neighbours(m, adj, k + 1, player)

\* kill_strategy
kill_strategy(m, index, player) ==
    LET cell == get(m, index)
    IN  IF cell.kind = "Filled" /\ cell.player = player
        THEN kill_neighbours(set(m, index, set_alive(cell, FALSE)),
                             adjacent(index), 1, player)
        ELSE m

\* search_strategy: Break(index) on a Cross of the player
search_strategy(m, index, player) ==
    LET cell == get(m, index)
    IN  cell.kind = "Cross" /\ cell.player = player

\* BoardManager::revive: revive_strategy on every cell the traverse visits
RECURSIVE revive_walk(_, _, _, _)
revive_walk(m, walk, k, player) ==
    IF k > Len(walk) THEN m
    ELSE revive_walk(revive_strategy(m, walk[k], player), walk, k + 1, player)

revive(m, index, player, order) ==
    revive_walk(m, visit_order(chain(m.cells, index), order), 1, player)

\* BoardManager::kill: kill_strategy on every cell the traverse visits
RECURSIVE kill_walk(_, _, _, _)
kill_walk(m, walk, k, player) ==
    IF k > Len(walk) THEN m
    ELSE kill_walk(kill_strategy(m, walk[k], player), walk, k + 1, player)

kill(m, index, player, order) ==
    kill_walk(m, visit_order(chain(m.cells, index), order), 1, player)

\* BoardManager::search: the first cell next to the chain on which
\* search_strategy breaks, NoIndex for None
search(m, index, player, order) ==
    LET members == chain(m.cells, index)
        found == {j \in Interior :
                     /\ \E i \in members : j \in AdjSet(i)
                     /\ search_strategy(m, j, player)}
    IN  IF found = {} THEN NoIndex ELSE visit_order(found, order)[1]

\* is_alive_filled_around
is_alive_filled_around(m, index, player) ==
    \E k \in 1 .. 8 :
        LET d == get(m, adjacent(index)[k])
        IN  d.kind = "Filled" /\ d.player = player /\ d.alive

\* an is_paired that never finds an important neighbour
is_paired_never(m, index, player) == FALSE

\* is_paired
is_paired(m, index, player) ==
    \E k \in 1 .. 8 :
        LET d == get(m, adjacent(index)[k])
        IN  d.kind \in {"Cross", "Filled"} /\ d.player = player /\ d.important

\* mark_adjacent_as_important: the first neighbour of the target kind owned by player
mark_adjacent_as_important(m, index, player, target) ==
    LET hits == {k \in 1 .. 8 :
                    LET d == get(m, adjacent(index)[k])
                    IN  d.kind = target /\ d.player = player}
    IN  IF hits = {} THEN m
        ELSE LET k == CHOOSE a \in hits : \A b \in hits : a <= b
                 adjacent_index == adjacent(index)[k]
             IN  set(m, adjacent_index, set_important(get(m, adjacent_index), TRUE))

\* an activate_around that revives a dead chain without marking the cell it
\* entered the chain at
RECURSIVE activate_loop_unmarked(_, _, _, _, _, _)
activate_loop_unmarked(m, adj, k, player, order, is_important) ==
    IF k > Len(adj) THEN [m |-> m, important |-> is_important]
    ELSE LET adjacent_index == adj[k]
             adjacent_cell == get(m, adjacent_index)
             r == try_activate(m, adjacent_cell, player)
         IN  IF \/ adjacent_cell.kind = "Empty"
                \/ (adjacent_cell.kind = "Cross" /\ adjacent_cell.player # player)
             THEN activate_loop_unmarked(set(r.m, adjacent_index, r.cell), adj, k + 1,
                                         player, order, is_important)
             ELSE IF /\ adjacent_cell.kind = "Filled"
                     /\ adjacent_cell.player = player
                     /\ ~adjacent_cell.alive
             THEN activate_loop_unmarked(
                      set(revive(m, adjacent_index, player, order), adjacent_index,
                          adjacent_cell),
                      adj, k + 1, player, order, TRUE)
             ELSE activate_loop_unmarked(m, adj, k + 1, player, order, is_important)

\* activate_around: returns the manager and the is_important result
RECURSIVE activate_loop(_, _, _, _, _, _)
activate_loop(m, adj, k, player, order, is_important) ==
    IF k > Len(adj) THEN [m |-> m, important |-> is_important]
    ELSE LET adjacent_index == adj[k]
             adjacent_cell == get(m, adjacent_index)
             r == try_activate(m, adjacent_cell, player)
         IN  IF \/ adjacent_cell.kind = "Empty"
                \/ (adjacent_cell.kind = "Cross" /\ adjacent_cell.player # player)
             THEN activate_loop(set(r.m, adjacent_index, r.cell), adj, k + 1,
                                player, order, is_important)
             ELSE IF /\ adjacent_cell.kind = "Filled"
                     /\ adjacent_cell.player = player
                     /\ ~adjacent_cell.alive
             THEN \* the copy read before the revive is written back
                  activate_loop(
                      set(revive(m, adjacent_index, player, order), adjacent_index,
                          set_important(adjacent_cell, TRUE)),
                      adj, k + 1, player, order, TRUE)
             ELSE activate_loop(m, adj, k + 1, player, order, is_important)

activate_around(m, index, player, order) ==
    activate_loop(m, adjacent(index), 1, player, order, FALSE)

\* deactivate_filled_around
RECURSIVE deactivate_filled_loop(_, _, _, _, _)
deactivate_filled_loop(m, adj, k, player, order) ==
    IF k > Len(adj) THEN m
    ELSE LET adjacent_index == adj[k]
             adjacent_cell == get(m, adjacent_index)
             new_important_index == search(m, adjacent_index, player, order)
             anchored ==
                 mark_adjacent_as_important(
                     set(m, new_important_index,
                         set_important(get(m, new_important_index), TRUE)),
                     new_important_index, player, "Filled")
             killed == kill(m, adjacent_index, player, order)
             \* the copy read before the kill is written back
             unpaired ==
                 IF ~is_paired(killed, adjacent_index, player)
                 THEN set(killed, adjacent_index, set_important(adjacent_cell, FALSE))
                 ELSE killed
         IN  IF /\ adjacent_cell.kind = "Filled"
                /\ adjacent_cell.player = player
                /\ adjacent_cell.important
             THEN deactivate_filled_loop(
                      IF new_important_index # NoIndex THEN anchored ELSE unpaired,
                      adj, k + 1, player, order)
             ELSE deactivate_filled_loop(m, adj, k + 1, player, order)

deactivate_filled_around(m, index, player, order) ==
    deactivate_filled_loop(m, adjacent(index), 1, player, order)

\* deactivate_remaining_around
RECURSIVE deactivate_remaining_loop(_, _, _, _)
deactivate_remaining_loop(m, adj, k, player) ==
    IF k > Len(adj) THEN m
    ELSE LET adjacent_cell == get(m, adj[k])
             r == try_deactivate(m, adjacent_cell, adj[k], player)
         IN  IF adjacent_cell.kind \in {"Empty", "Cross"}
             THEN deactivate_remaining_loop(set(r.m, adj[k], r.cell), adj, k + 1, player)
             ELSE deactivate_remaining_loop(m, adj, k + 1, player)

deactivate_remaining_around(m, index, player) ==
    deactivate_remaining_loop(m, adjacent(index), 1, player)

\* deactivate_around
deactivate_around(m, index, player, was_important, order) ==
    deactivate_remaining_around(
        IF was_important THEN deactivate_filled_around(m, index, player, order) ELSE m,
        index, player)

(***************************************************************************)
(* BoardManager::make_move and BoardManager::cancel_move                   *)
(***************************************************************************)
\* an Empty arm that marks every new cross important
make_move_empty_apply_anchored(m, index, player, order) ==
    LET cell == get(m, index)
        crossed == cross_out(cell, player)
        m1 == add_to_moves_counter(add_to_crosses_counter(m, player, 1), player, -1)
        a  == activate_around(m1, index, player, order)
    IN  set(a.m, index, set_important(crossed, TRUE))

\* make_move, Empty arm, after the reach check: the cross is placed
make_move_empty_apply(m, index, player, order) ==
    LET cell == get(m, index)
        crossed == cross_out(cell, player)
        m1 == add_to_moves_counter(add_to_crosses_counter(m, player, 1), player, -1)
        a  == activate_around(m1, index, player, order)
    IN  set(a.m, index, set_important(crossed, a.important))

\* an Empty arm that places the cross without looking at the activity
make_move_empty_unchecked(m, index, player, order) ==
    [m |-> make_move_empty_apply(m, index, player, order), result |-> "Ok"]

\* make_move on an Empty cell
make_move_empty(m, index, player, order) ==
    IF ~is_active(get(m, index), player) THEN [m |-> m, result |-> "OutOfReach"]
    ELSE [m |-> make_move_empty_apply(m, index, player, order), result |-> "Ok"]

\* make_move, Cross arm, after the owner and reach checks: the cross is filled
make_move_cross_apply(m, index, player, order) ==
    LET cell == get(m, index)
        was_important == cell.important
        previous_player == cell.player
        filled == fill(cell, player)
        m1 == add_to_crosses_counter(add_to_moves_counter(m, player, -1),
                                     previous_player, -1)
        m2 == deactivate_around(set(m1, index, filled), index, previous_player,
                                was_important, order)
        important == ~is_alive_filled_around(m2, index, player)
        m3 == IF important
              THEN mark_adjacent_as_important(m2, index, player, "Cross")
              ELSE m2
        a  == activate_around(m3, index, player, order)
    IN  set(a.m, index, set_important(filled, a.important \/ important))

\* a Cross arm that charges the move before the reach check
make_move_cross_charged(m, index, player, order) ==
    IF get(m, index).player = player THEN [m |-> m, result |-> "SelfFill"]
    ELSE IF ~is_active(get(m, index), player)
    THEN [m |-> add_to_moves_counter(m, player, -1), result |-> "OutOfReach"]
    ELSE [m |-> make_move_cross_apply(m, index, player, order), result |-> "Ok"]

\* a Cross arm that checks the reach before the owner
make_move_cross_reach_first(m, index, player, order) ==
    IF ~is_active(get(m, index), player) THEN [m |-> m, result |-> "OutOfReach"]
    ELSE IF get(m, index).player = player THEN [m |-> m, result |-> "SelfFill"]
    ELSE [m |-> make_move_cross_apply(m, index, player, order), result |-> "Ok"]

\* make_move on a Cross cell
make_move_cross(m, index, player, order) ==
    IF get(m, index).player = player THEN [m |-> m, result |-> "SelfFill"]
    ELSE IF ~is_active(get(m, index), player) THEN [m |-> m, result |-> "OutOfReach"]
    ELSE [m |-> make_move_cross_apply(m, index, player, order), result |-> "Ok"]

\* a make_move that takes a Filled cell for a Border and a Border for a Filled
make_move_kinds_swapped(m, index, player, order) ==
    LET kind == get(m, index).kind
    IN  IF kind = "Empty" THEN make_move_empty(m, index, player, order)
        ELSE IF kind = "Cross" THEN make_move_cross(m, index, player, order)
        ELSE IF kind = "Filled" THEN [m |-> m, result |-> "BorderHit"]
        ELSE [m |-> m, result |-> "DoubleFill"]

\* BoardManager::make_move
make_move(m, index, player, order) ==
    LET kind == get(m, index).kind
    IN  IF kind = "Empty" THEN make_move_empty(m, index, player, order)
        ELSE IF kind = "Cross" THEN make_move_cross(m, index, player, order)
        ELSE IF kind = "Filled" THEN [m |-> m, result |-> "DoubleFill"]
        ELSE [m |-> m, result |-> "BorderHit"]

\* cancel_move on a Cross cell
cancel_move_cross(m, index, order) ==
    LET cell == get(m, index)
        was_important == cell.important
        previous_player == cell.player
        removed == remove_cross(cell)
        m1 == add_to_moves_counter(add_to_crosses_counter(m, previous_player, -1),
                                   previous_player, 1)
        m2 == deactivate_around(set(m1, index, removed), index, previous_player,
                                was_important, order)
    IN  [m |-> set(m2, index, removed), result |-> "Ok"]

\* a cancel_move on a Filled cell that leaves the crosses counter alone
cancel_move_filled_uncounted(m, index, player, order) ==
    LET cell == get(m, index)
        was_important == cell.important
        previous_player == cell.player
        removed == remove_fill(cell, player)
        m1 == add_to_moves_counter(m, previous_player, 1)
        m2 == deactivate_around(set(m1, index, removed), index, previous_player,
                                was_important, order)
        a  == activate_around(m2, index, player, order)
    IN  [m |-> set(a.m, index, set_important(removed, a.important)), result |-> "Ok"]

\* a cancel_move on a Filled cell that hands the cross to the player who
\* had filled it
cancel_move_filled_to_filler(m, index, player, order) ==
    LET cell == get(m, index)
        was_important == cell.important
        previous_player == cell.player
        removed == remove_fill(cell, previous_player)
        m1 == add_to_crosses_counter(add_to_moves_counter(m, previous_player, 1),
                                     player, 1)
        m2 == deactivate_around(set(m1, index, removed), index, previous_player,
                                was_important, order)
        a  == activate_around(m2, index, player, order)
    IN  [m |-> set(a.m, index, set_important(removed, a.important)), result |-> "Ok"]

\* cancel_move on a Filled cell; player is what get_player() returns
cancel_move_filled(m, index, player, order) ==
    LET cell == get(m, index)
        was_important == cell.important
        previous_player == cell.player
        removed == remove_fill(cell, player)
        m1 == add_to_crosses_counter(add_to_moves_counter(m, previous_player, 1),
                                     player, 1)
        m2 == deactivate_around(set(m1, index, removed), index, previous_player,
                                was_important, order)
        a  == activate_around(m2, index, player, order)
    IN  [m |-> set(a.m, index, set_important(removed, a.important)), result |-> "Ok"]

\* BoardManager::cancel_move
cancel_move(m, index, player, order) ==
    LET kind == get(m, index).kind
    IN  IF kind = "Empty" THEN [m |-> m, result |-> "EmptyCancel"]
        ELSE IF kind = "Cross" THEN cancel_move_cross(m, index, order)
        ELSE IF kind = "Filled" THEN cancel_move_filled(m, index, player, order)
        ELSE [m |-> m, result |-> "BorderHit"]

\* init: restores the activity a cell gives to its neighbours
init(m, index, player, order) ==
    IF get(m, index).kind = "Cross"
    THEN activate_around(m, index, player, order).m
    ELSE m

(***************************************************************************)
(* The Cell accessors the engine calls.  Beside every engine function      *)
(* stands the set of calls it makes on cells, each call recorded with the  *)
(* accessor's name and the kind of the cell it is made on.                 *)
(***************************************************************************)
Call(op, cell) == [op |-> op, kind |-> cell.kind]

\* try_activate: is_active, then kind/player on a Cross, then activate
try_activate_calls(cell, player) ==
    {Call("is_active", cell)}
        \cup (IF cell.kind = "Cross" THEN {Call("player", cell)} ELSE {})
        \cup (IF cell.kind = "Cross" /\ player = cell.player THEN {}
              ELSE {Call("activate", cell)})

\* rebuild_activity: every neighbour is asked its kind, a Filled one whether
\* it is alive, a counted one its player; the cell itself is activated
rebuild_activity_calls(m, index, cell) ==
    UNION {LET adjacent_cell == get(m, adjacent(index)[k])
               counted == \/ adjacent_cell.kind = "Cross"
                          \/ (adjacent_cell.kind = "Filled" /\ adjacent_cell.alive)
               own == cell.kind = "Cross" /\ adjacent_cell.player = cell.player
           IN  (IF adjacent_cell.kind = "Filled"
                THEN {Call("is_alive", adjacent_cell)} ELSE {})
               \cup (IF counted THEN {Call("player", adjacent_cell)} ELSE {})
               \cup (IF counted /\ cell.kind = "Cross"
                     THEN {Call("player", cell)} ELSE {})
               \cup (IF counted /\ ~own THEN {Call("activate", cell)} ELSE {})
           : k \in 1 .. 8}

\* try_deactivate
try_deactivate_calls(m, cell, index, player) ==
    LET r == deactivate(cell, player)
    IN  {Call("is_active", cell)}
        \cup (IF ~is_active(cell, player) THEN {}
              ELSE (IF cell.kind = "Cross" THEN {Call("player", cell)} ELSE {})
                   \cup {Call("deactivate", cell)}
                   \cup (IF r.status = "Zero" /\ r.cell.overheat
                         THEN rebuild_activity_calls(m, index, r.cell)
                                  \cup {Call("is_active", cell)}
                         ELSE {}))

\* the inner loop of revive_strategy
RECURSIVE revive_neighbours_calls(_, _, _, _)
revive_neighbours_calls(m, adj, k, player) ==
    IF k > Len(adj) THEN {}
    ELSE LET adjacent_cell == get(m, adj[k])
             r == try_activate(m, adjacent_cell, player)
         IN  IF adjacent_cell.kind \in {"Cross", "Empty"}
             THEN try_activate_calls(adjacent_cell, player)
                      \cup revive_neighbours_calls(set(r.m, adj[k], r.cell), adj,
                                                   k + 1, player)
             ELSE revive_neighbours_calls(m, adj, k + 1, player)

\* revive_strategy
revive_strategy_calls(m, index, player) ==
    LET cell == get(m, index)
    IN  IF cell.kind # "Filled" THEN {}
        ELSE {Call("player", cell)}
                 \cup (IF cell.player # player THEN {}
                       ELSE {Call("set_alive", cell)}
                                \cup revive_neighbours_calls(
                                         set(m, index, set_alive(cell, TRUE)),
                                         adjacent(index), 1, player))

\* the inner loop of kill_strategy
RECURSIVE kill_neighbours_calls(_, _, _, _)
kill_neighbours_calls(m, adj, k, player) ==
    IF k > Len(adj) THEN {}
    ELSE LET adjacent_cell == get(m, adj[k])
             r == try_deactivate(m, adjacent_cell, adj[k], player)
         IN  IF adjacent_cell.kind \in {"Cross", "Empty"}
             THEN try_deactivate_calls(m, adjacent_cell, adj[k], player)
                      \cup kill_neighbours_calls(set(r.m, adj[k], r.cell), adj,
                                                 k + 1, player)
             ELSE kill_neighbours_calls(m, adj, k + 1, player)

\* kill_strategy
kill_strategy_calls(m, index, player) ==
    LET cell == get(m, index)
    IN  IF cell.kind # "Filled" THEN {}
        ELSE {Call("player", cell)}
                 \cup (IF cell.player # player THEN {}
                       ELSE {Call("set_alive", cell)}
                                \cup kill_neighbours_calls(
                                         set(m, index, set_alive(cell, FALSE)),
                                         adjacent(index), 1, player))

\* search_strategy: the player of a Cross is read
search_strategy_calls(m, index, player) ==
    IF get(m, index).kind = "Cross" THEN {Call("player", get(m, index))} ELSE {}

\* BoardManager::revive with revive_strategy
RECURSIVE revive_walk_calls(_, _, _, _)
revive_walk_calls(m, walk, k, player) ==
    IF k > Len(walk) THEN {}
    ELSE revive_strategy_calls(m, walk[k], player)
             \cup revive_walk_calls(revive_strategy(m, walk[k], player), walk,
                                    k + 1, player)

revive_calls(m, index, player, order) ==
    revive_walk_calls(m, visit_order(chain(m.cells, index), order), 1, player)

\* BoardManager::kill with kill_strategy
RECURSIVE kill_walk_calls(_, _, _, _)
kill_walk_calls(m, walk, k, player) ==
    IF k > Len(walk) THEN {}
    ELSE kill_strategy_calls(m, walk[k], player)
             \cup kill_walk_calls(kill_strategy(m, walk[k], player), walk,
                                  k + 1, player)

kill_calls(m, index, player, order) ==
    kill_walk_calls(m, visit_order(chain(m.cells, index), order), 1, player)

\* BoardManager::search with search_strategy, on the chain and the cells next to it
search_calls(m, index, player) ==
    LET members == chain(m.cells, index)
    IN  UNION {search_strategy_calls(m, j, player) :
                  j \in members \cup {j \in Interior : \E i \in members : j \in AdjSet(i)}}

\* the neighbours a short-circuiting any()/find() looks at: up to the first hit
LookedAt(hits) ==
    IF hits = {} THEN 1 .. 8
    ELSE 1 .. (CHOOSE a \in hits : \A b \in hits : a <= b)

\* is_alive_filled_around
is_alive_filled_around_calls(m, index, player) ==
    LET hits == {k \in 1 .. 8 :
                    LET d == get(m, adjacent(index)[k])
                    IN  d.kind = "Filled" /\ d.player = player /\ d.alive}
    IN  UNION {LET d == get(m, adjacent(index)[k])
               IN  IF d.kind # "Filled" THEN {}
                   ELSE {Call("player", d)}
                            \cup (IF d.player = player THEN {Call("is_alive", d)}
                                  ELSE {})
               : k \in LookedAt(hits)}

\* is_paired
is_paired_calls(m, index, player) ==
    LET hits == {k \in 1 .. 8 :
                    LET d == get(m, adjacent(index)[k])
                    IN  d.kind \in {"Cross", "Filled"} /\ d.player = player
                        /\ d.important}
    IN  UNION {LET d == get(m, adjacent(index)[k])
               IN  IF d.kind \notin {"Cross", "Filled"} THEN {}
                   ELSE {Call("player", d)}
                            \cup (IF d.player = player
                                  THEN {Call("is_important", d)} ELSE {})
               : k \in LookedAt(hits)}

\* mark_adjacent_as_important
mark_adjacent_as_important_calls(m, index, player, target) ==
    LET hits == {k \in 1 .. 8 :
                    LET d == get(m, adjacent(index)[k])
                    IN  d.kind = target /\ d.player = player}
    IN  UNION {LET d == get(m, adjacent(index)[k])
               IN  IF d.kind = target THEN {Call("player", d)} ELSE {}
               : k \in LookedAt(hits)}
        \cup (IF hits = {} THEN {}
              ELSE {Call("set_important",
                         get(m, adjacent(index)[CHOOSE a \in hits :
                                                   \A b \in hits : a <= b]))})

\* activate_around
RECURSIVE activate_loop_calls(_, _, _, _, _)
activate_loop_calls(m, adj, k, player, order) ==
    IF k > Len(adj) THEN {}
    ELSE LET adjacent_index == adj[k]
             adjacent_cell == get(m, adjacent_index)
             r == try_activate(m, adjacent_cell, player)
         IN  IF adjacent_cell.kind = "Empty"
             THEN try_activate_calls(adjacent_cell, player)
                      \cup activate_loop_calls(set(r.m, adjacent_index, r.cell), adj,
                                               k + 1, player, order)
             ELSE IF adjacent_cell.kind = "Cross"
             THEN {Call("player", adjacent_cell)}
                      \cup (IF adjacent_cell.player # player
                            THEN try_activate_calls(adjacent_cell, player)
                                     \cup activate_loop_calls(
                                              set(r.m, adjacent_index, r.cell), adj,
                                              k + 1, player, order)
                            ELSE activate_loop_calls(m, adj, k + 1, player, order))
             ELSE IF adjacent_cell.kind = "Filled"
             THEN {Call("player", adjacent_cell)}
                      \cup (IF adjacent_cell.player = player
                            THEN {Call("is_alive", adjacent_cell)} ELSE {})
                      \cup (IF adjacent_cell.player = player /\ ~adjacent_cell.alive
                            THEN revive_calls(m, adjacent_index, player, order)
                                     \cup {Call("set_important", adjacent_cell)}
                                     \cup activate_loop_calls(
                                              set(revive(m, adjacent_index, player, order),
                                                  adjacent_index,
                                                  set_important(adjacent_cell, TRUE)),
                                              adj, k + 1, player, order)
                            ELSE activate_loop_calls(m, adj, k + 1, player, order))
             ELSE activate_loop_calls(m, adj, k + 1, player, order)

activate_around_calls(m, index, player, order) ==
    activate_loop_calls(m, adjacent(index), 1, player, order)

\* deactivate_filled_around
RECURSIVE deactivate_filled_loop_calls(_, _, _, _, _)
deactivate_filled_loop_calls(m, adj, k, player, order) ==
    IF k > Len(adj) THEN {}
    ELSE LET adjacent_index == adj[k]
             adjacent_cell == get(m, adjacent_index)
             new_important_index == search(m, adjacent_index, player, order)
             marked == set(m, new_important_index,
                           set_important(get(m, new_important_index), TRUE))
             anchored == mark_adjacent_as_important(marked, new_important_index,
                                                    player, "Filled")
             killed == kill(m, adjacent_index, player, order)
             unpaired ==
                 IF ~is_paired(killed, adjacent_index, player)
                 THEN set(killed, adjacent_index, set_important(adjacent_cell, FALSE))
                 ELSE killed
             visited == /\ adjacent_cell.kind = "Filled"
                        /\ adjacent_cell.player = player
                        /\ adjacent_cell.important
         IN  (IF adjacent_cell.kind = "Filled"
              THEN {Call("player", adjacent_cell)} ELSE {})
             \cup (IF adjacent_cell.kind = "Filled" /\ adjacent_cell.player = player
                   THEN {Call("is_important", adjacent_cell)} ELSE {})
             \cup (IF ~visited THEN {}
                   ELSE search_calls(m, adjacent_index, player)
                            \cup (IF new_important_index # NoIndex
                                  THEN {Call("set_important",
                                             get(m, new_important_index))}
                                           \cup mark_adjacent_as_important_calls(
                                                    marked, new_important_index,
                                                    player, "Filled")
                                  ELSE kill_calls(m, adjacent_index, player, order)
                                           \cup is_paired_calls(killed, adjacent_index,
                                                                player)
                                           \cup (IF ~is_paired(killed, adjacent_index,
                                                               player)
                                                 THEN {Call("set_important",
                                                            adjacent_cell)}
                                                 ELSE {})))
             \cup deactivate_filled_loop_calls(
                      IF ~visited THEN m
                      ELSE IF new_important_index # NoIndex THEN anchored
                      ELSE unpaired,
                      adj, k + 1, player, order)

deactivate_filled_around_calls(m, index, player, order) ==
    deactivate_filled_loop_calls(m, adjacent(index), 1, player, order)

\* a deactivate_remaining_around that tries to deactivate every neighbour,
\* whatever its kind
RECURSIVE deactivate_remaining_loop_calls_unfiltered(_, _, _, _)
deactivate_remaining_loop_calls_unfiltered(m, adj, k, player) ==
    IF k > Len(adj) THEN {}
    ELSE LET adjacent_cell == get(m, adj[k])
             r == try_deactivate(m, adjacent_cell, adj[k], player)
         IN  try_deactivate_calls(m, adjacent_cell, adj[k], player)
                 \cup deactivate_remaining_loop_calls_unfiltered(
                          set(r.m, adj[k], r.cell), adj, k + 1, player)

\* deactivate_remaining_around
RECURSIVE deactivate_remaining_loop_calls(_, _, _, _)
deactivate_remaining_loop_calls(m, adj, k, player) ==
    IF k > Len(adj) THEN {}
    ELSE LET adjacent_cell == get(m, adj[k])
             r == try_deactivate(m, adjacent_cell, adj[k], player)
         IN  IF adjacent_cell.kind \in {"Empty", "Cross"}
             THEN try_deactivate_calls(m, adjacent_cell, adj[k], player)
                      \cup deactivate_remaining_loop_calls(
                               set(r.m, adj[k], r.cell), adj, k + 1, player)
             ELSE deactivate_remaining_loop_calls(m, adj, k + 1, player)

deactivate_remaining_around_calls(m, index, player) ==
    deactivate_remaining_loop_calls(m, adjacent(index), 1, player)

\* deactivate_around
deactivate_around_calls(m, index, player, was_important, order) ==
    (IF was_important THEN deactivate_filled_around_calls(m, index, player, order)
     ELSE {})
    \cup deactivate_remaining_around_calls(
             IF was_important THEN deactivate_filled_around(m, index, player, order)
             ELSE m,
             index, player)

\* BoardManager::make_move
make_move_calls(m, index, player, order) ==
    LET cell == get(m, index)
        crossed == cross_out(cell, player)
        e1 == add_to_moves_counter(add_to_crosses_counter(m, player, 1), player, -1)
        filled == fill(cell, player)
        c1 == set(add_to_crosses_counter(add_to_moves_counter(m, player, -1),
                                         cell.player, -1), index, filled)
        c2 == deactivate_around(c1, index, cell.player, cell.important, order)
        important == ~is_alive_filled_around(c2, index, player)
        c3 == IF important THEN mark_adjacent_as_important(c2, index, player, "Cross")
              ELSE c2
    IN  IF cell.kind = "Empty"
        THEN {Call("is_active", cell)}
                 \cup (IF ~is_active(cell, player) THEN {}
                       ELSE {Call("cross_out", cell)}
                                \cup activate_around_calls(e1, index, player, order)
                                \cup {Call("set_important", crossed)})
        ELSE IF cell.kind = "Cross"
        THEN {Call("player", cell)}
                 \cup (IF cell.player = player THEN {}
                       ELSE {Call("is_active", cell)}
                                \cup (IF ~is_active(cell, player) THEN {}
                                      ELSE {Call("is_important", cell),
                                            Call("player", cell),
                                            Call("fill", cell)}
                                           \cup deactivate_around_calls(
                                                    c1, index, cell.player,
                                                    cell.important, order)
                                           \cup is_alive_filled_around_calls(
                                                    c2, index, player)
                                           \cup (IF important
                                                 THEN mark_adjacent_as_important_calls(
                                                          c2, index, player, "Cross")
                                                 ELSE {})
                                           \cup activate_around_calls(c3, index,
                                                                      player, order)
                                           \cup {Call("set_important", filled)}))
        ELSE {}

\* BoardManager::cancel_move
cancel_move_calls(m, index, player, order) ==
    LET cell == get(m, index)
        previous_player == cell.player
        uncrossed == remove_cross(cell)
        x1 == set(add_to_moves_counter(add_to_crosses_counter(m, previous_player, -1),
                                       previous_player, 1), index, uncrossed)
        unfilled == remove_fill(cell, player)
        f1 == set(add_to_crosses_counter(add_to_moves_counter(m, previous_player, 1),
                                         player, 1), index, unfilled)
        f2 == deactivate_around(f1, index, previous_player, cell.important, order)
    IN  IF cell.kind = "Cross"
        THEN {Call("is_important", cell), Call("player", cell),
              Call("remove_cross", cell)}
                 \cup deactivate_around_calls(x1, index, previous_player,
                                              cell.important, order)
        ELSE IF cell.kind = "Filled"
        THEN {Call("is_important", cell), Call("player", cell),
              Call("remove_fill", cell)}
                 \cup deactivate_around_calls(f1, index, previous_player,
                                              cell.important, order)
                 \cup activate_around_calls(f2, index, player, order)
                 \cup {Call("set_important", unfilled)}
        ELSE {}

(***************************************************************************)
(* The steps of the deactivation cascade, in the order the engine takes    *)
(* them: a search, a kill or a re-anchoring of the chain of a Filled cell, *)
(* and the removal of an activation edge from a neighbour of the target.   *)
(***************************************************************************)
Step(name, index) == [step |-> name, at |-> index]

\* deactivate_filled_around: a search for every important Filled cell of the
\* player around the target, then the re-anchoring or the kill
RECURSIVE deactivate_filled_loop_steps(_, _, _, _, _)
deactivate_filled_loop_steps(m, adj, k, player, order) ==
    IF k > Len(adj) THEN <<>>
    ELSE LET adjacent_index == adj[k]
             adjacent_cell == get(m, adjacent_index)
             new_important_index == search(m, adjacent_index, player, order)
             anchored ==
                 mark_adjacent_as_important(
                     set(m, new_important_index,
                         set_important(get(m, new_important_index), TRUE)),
                     new_important_index, player, "Filled")
             killed == kill(m, adjacent_index, player, order)
             unpaired ==
                 IF ~is_paired(killed, adjacent_index, player)
                 THEN set(killed, adjacent_index, set_important(adjacent_cell, FALSE))
                 ELSE killed
         IN  IF /\ adjacent_cell.kind = "Filled"
                /\ adjacent_cell.player = player
                /\ adjacent_cell.important
             THEN <<Step("search", adjacent_index),
                    Step(IF new_important_index # NoIndex THEN "anchor" ELSE "kill",
                         adjacent_index)>>
                      \o deactivate_filled_loop_steps(
                             IF new_important_index # NoIndex THEN anchored
                             ELSE unpaired,
                             adj, k + 1, player, order)
             ELSE deactivate_filled_loop_steps(m, adj, k + 1, player, order)

deactivate_filled_around_steps(m, index, player, order) ==
    deactivate_filled_loop_steps(m, adjacent(index), 1, player, order)

\* deactivate_remaining_around: an edge is removed from every Empty or Cross
\* neighbour that is active for the player
RECURSIVE deactivate_remaining_loop_steps(_, _, _, _)
deactivate_remaining_loop_steps(m, adj, k, player) ==
    IF k > Len(adj) THEN <<>>
    ELSE LET adjacent_cell == get(m, adj[k])
             r == try_deactivate(m, adjacent_cell, adj[k], player)
         IN  IF adjacent_cell.kind \in {"Empty", "Cross"}
             THEN (IF is_active(adjacent_cell, player)
                   THEN <<Step("edge", adj[k])>> ELSE <<>>)
                      \o deactivate_remaining_loop_steps(
                             set(r.m, adj[k], r.cell), adj, k + 1, player)
             ELSE deactivate_remaining_loop_steps(m, adj, k + 1, player)

deactivate_remaining_around_steps(m, index, player) ==
    deactivate_remaining_loop_steps(m, adjacent(index), 1, player)

\* a deactivate_around that removes the edges first and looks at the chains after
deactivate_around_steps_edges_first(m, index, player, was_important, order) ==
    deactivate_remaining_around_steps(m, index, player)
        \o (IF was_important
            THEN deactivate_filled_around_steps(
                     deactivate_remaining_around(m, index, player), index, player,
                     order)
            ELSE <<>>)

\* deactivate_around
deactivate_around_steps(m, index, player, was_important, order) ==
    (IF was_important THEN deactivate_filled_around_steps(m, index, player, order)
     ELSE <<>>)
        \o deactivate_remaining_around_steps(
               IF was_important THEN deactivate_filled_around(m, index, player, order)
               ELSE m,
               index, player)

\* the cascade of a make_move that fills the Cross at index, or of a
\* cancel_move that removes it: the target is stored with its new kind first
cross_gone_steps(m, name, index, player, order) ==
    LET cell == get(m, index)
        filled == set(add_to_crosses_counter(add_to_moves_counter(m, player, -1),
                                             cell.player, -1),
                      index, fill(cell, player))
        removed == set(add_to_moves_counter(
                           add_to_crosses_counter(m, cell.player, -1),
                           cell.player, 1),
                       index, remove_cross(cell))
    IN  deactivate_around_steps(IF name = "make_move" THEN filled ELSE removed,
                                index, cell.player, cell.important, order)

\* activate_around: the Filled cells at which the loop enters a dead chain
\* of the player and revives it
RECURSIVE activate_loop_entered(_, _, _, _, _)
activate_loop_entered(m, adj, k, player, order) ==
    IF k > Len(adj) THEN {}
    ELSE LET adjacent_index == adj[k]
             adjacent_cell == get(m, adjacent_index)
             r == try_activate(m, adjacent_cell, player)
         IN  IF \/ adjacent_cell.kind = "Empty"
                \/ (adjacent_cell.kind = "Cross" /\ adjacent_cell.player # player)
             THEN activate_loop_entered(set(r.m, adjacent_index, r.cell), adj, k + 1,
                                        player, order)
             ELSE IF /\ adjacent_cell.kind = "Filled"
                     /\ adjacent_cell.player = player
                     /\ ~adjacent_cell.alive
             THEN {adjacent_index}
                      \cup activate_loop_entered(
                               set(revive(m, adjacent_index, player, order),
                                   adjacent_index,
                                   set_important(adjacent_cell, TRUE)),
                               adj, k + 1, player, order)
             ELSE activate_loop_entered(m, adj, k + 1, player, order)

\* the Filled cells at which the activation pass of make_move(index, player)
\* or of cancel_move(index, || player) on a Filled cell enters a dead chain
activation_entered(m, name, index, player, order) ==
    LET cell == get(m, index)
        e1 == add_to_moves_counter(add_to_crosses_counter(m, player, 1), player, -1)
        c1 == set(add_to_crosses_counter(add_to_moves_counter(m, player, -1),
                                         cell.player, -1),
                  index, fill(cell, player))
        c2 == deactivate_around(c1, index, cell.player, cell.important, order)
        c3 == IF ~is_alive_filled_around(c2, index, player)
              THEN mark_adjacent_as_important(c2, index, player, "Cross")
              ELSE c2
        f1 == set(add_to_crosses_counter(add_to_moves_counter(m, cell.player, 1),
                                         player, 1),
                  index, remove_fill(cell, player))
        f2 == deactivate_around(f1, index, cell.player, cell.important, order)
    IN  IF name = "make_move" /\ cell.kind = "Empty"
        THEN activate_loop_entered(e1, adjacent(index), 1, player, order)
        ELSE IF name = "make_move" /\ cell.kind = "Cross"
        THEN activate_loop_entered(c3, adjacent(index), 1, player, order)
        ELSE IF name = "cancel_move" /\ cell.kind = "Filled"
        THEN activate_loop_entered(f2, adjacent(index), 1, player, order)
        ELSE {}

\* try_deactivate on an overheated cell whose counter for the player reaches
\* zero: what the rebuild leaves, told for the observer.  around holds, for
\* every player, whether a Cross or an alive Filled cell of that player is
\* adjacent on the board the call works on.
rebuild_report(m, cell, index, player) ==
    LET r == try_deactivate(m, cell, index, player)
    IN  [ at          |-> index,
          player      |-> player,
          kind        |-> cell.kind,
          owner       |-> cell.player,
          active      |-> [Q \in Players |-> is_active(r.cell, Q)],
          around      |-> [Q \in Players |->
                              \E j \in AdjSet(index) :
                                  /\ m.cells[j].player = Q
                                  /\ \/ m.cells[j].kind = "Cross"
                                     \/ (m.cells[j].kind = "Filled"
                                            /\ m.cells[j].alive)],
          decremented |-> r.m.moves[player] = m.moves[player] - 1 ]

\* deactivate_remaining_around: the rebuilds its calls of try_deactivate run
RECURSIVE deactivate_remaining_loop_rebuilds(_, _, _, _)
deactivate_remaining_loop_rebuilds(m, adj, k, player) ==
    IF k > Len(adj) THEN {}
    ELSE LET adjacent_cell == get(m, adj[k])
             r == try_deactivate(m, adjacent_cell, adj[k], player)
             d == deactivate(adjacent_cell, player)
         IN  IF adjacent_cell.kind \in {"Empty", "Cross"}
             THEN (IF /\ is_active(adjacent_cell, player)
                      /\ d.status = "Zero"
                      /\ d.cell.overheat
                   THEN {rebuild_report(m, adjacent_cell, adj[k], player)}
                   ELSE {})
                      \cup deactivate_remaining_loop_rebuilds(
                               set(r.m, adj[k], r.cell), adj, k + 1, player)
             ELSE deactivate_remaining_loop_rebuilds(m, adj, k + 1, player)

\* the rebuilds run by deactivate_remaining_around in make_move on a Cross,
\* in cancel_move on a Cross and in cancel_move(index, || player) on a Filled cell
deactivation_rebuilds(m, name, index, player, order) ==
    LET cell == get(m, index)
        previous_player == cell.player
        c1 == set(add_to_crosses_counter(add_to_moves_counter(m, player, -1),
                                         previous_player, -1),
                  index, fill(cell, player))
        x1 == set(add_to_moves_counter(add_to_crosses_counter(m, previous_player, -1),
                                       previous_player, 1),
                  index, remove_cross(cell))
        f1 == set(add_to_crosses_counter(add_to_moves_counter(m, previous_player, 1),
                                         player, 1),
                  index, remove_fill(cell, player))
        start == IF name = "make_move" THEN c1
                 ELSE IF cell.kind = "Cross" THEN x1 ELSE f1
        chains == IF cell.important
                  THEN deactivate_filled_around(start, index, previous_player, order)
                  ELSE start
    IN  IF (name = "make_move" /\ cell.kind = "Cross")
              \/ (name = "cancel_move" /\ cell.kind \in {"Cross", "Filled"})
        THEN deactivate_remaining_loop_rebuilds(chains, adjacent(index), 1,
                                                previous_player)
        ELSE {}

(***************************************************************************)
(* The board as a state machine                                            *)
(***************************************************************************)
\* the cell on which player p holds a cross when the game starts: the
\* players are spread over the interior, the first on its first cell and
\* the last on its last cell
StartIndex(p) ==
    LET cells == visit_order(Field, "ascending")
    IN  cells[1 + (p * (Len(cells) - 1)) \div (BoardPlayers - 1)]

\* the board before init: one cross per player, counters counting the crosses
StartBoard ==
    [ cells |-> [i \in Indices |->
                    IF i \notin Field THEN BorderCell
                    ELSE IF \E p \in Players : StartIndex(p) = i
                    THEN [EmptyCell EXCEPT
                             !.kind = "Cross",
                             !.player = CHOOSE p \in Players : StartIndex(p) = i]
                    ELSE EmptyCell],
      moves    |-> [p \in Players |-> 0],
      crosses  |-> [p \in Players |-> 1],
      asserted |-> FALSE ]

\* a board on which nobody holds a cross yet
BlankBoard ==
    [ cells |-> [i \in Indices |-> IF i \notin Field THEN BorderCell ELSE EmptyCell],
      moves    |-> [p \in Players |-> 0],
      crosses  |-> [p \in Players |-> 0],
      asserted |-> FALSE ]

\* init applied to every cell, each cross with its owner
RECURSIVE init_all(_, _, _, _)
init_all(m, cells, k, order) ==
    IF k > Len(cells) THEN m
    ELSE init_all(init(m, cells[k], get(m, cells[k]).player, order), cells, k + 1, order)

NoBoardOp == [name |-> "init", index |-> 0, player |-> 0, result |-> "Ok"]

\* the orders in which a board's traverse may walk the cells of a chain
Orders == {"ascending", "descending"}

\* the orders worth telling apart on a board: traverse and search walk the
\* chain of a Filled cell, so without one the order changes nothing
OrdersOn(m) ==
    IF \E i \in Interior : m.cells[i].kind = "Filled" THEN Orders ELSE {"ascending"}

\* the indices a caller passes: every interior cell, and the first and the
\* last cell of the surrounding border
CallIndices == Interior \cup {0, Width * Height - 1}

\* the indices a caller passes on board m: the cells in play, and the first
\* and the last cell of the surrounding border
CallIndicesOn(m) ==
    {i \in Interior : m.cells[i].kind # "Border"} \cup {0, Width * Height - 1}

\* the boards a game is set up with, each passed through init
Setups ==
    {init_all(b, visit_order(Interior, "ascending"), 1, "ascending") :
        b \in {StartBoard, BlankBoard}}

\* the state when the game on board b starts, with budget successful calls
\* to follow
BoardSetUp(b, budget) ==
    /\ board = b
    /\ opsBudget = budget
    /\ history = <<>>
    /\ ops = 0
    /\ bOp = NoBoardOp
    /\ bOp2 = NoBoardOp
    /\ bPre = board
    /\ bPre2 = board

\* the board with every player's first cross, activity restored by init
StartedBoard == init_all(StartBoard, visit_order(Interior, "ascending"), 1, "ascending")

BoardInit == \E b \in Setups : BoardSetUp(b, MaxOps)

\* one game on the started board, followed far
BoardInitLong == BoardSetUp(StartedBoard, MaxLongOps)

\* the owner logged for a move on a cell: the owner of the cross that is
\* filled, the mover for a cross that is placed
LoggedOwner(cell, player) ==
    IF cell.kind = "Cross" THEN cell.player ELSE player

\* the cell in interior row r and interior column c, both counted from 1
At(r, c) == r * Width + c

\* the open board before init: every interior cell in play, the first
\* player's cross on the first cell and the last player's cross two rows
\* and two columns away from it
OpenBoard ==
    [ cells |-> [i \in Indices |->
                    IF IsBorderIndex(i) THEN BorderCell
                    ELSE IF i = At(1, 1)
                    THEN [EmptyCell EXCEPT !.kind = "Cross", !.player = 0]
                    ELSE IF i = At(3, 3)
                    THEN [EmptyCell EXCEPT !.kind = "Cross",
                                           !.player = BoardPlayers - 1]
                    ELSE EmptyCell],
      moves    |-> [p \in Players |-> 0],
      crosses  |-> [p \in Players |->
                      IF p = 0 \/ p = BoardPlayers - 1 THEN 1 ELSE 0],
      asserted |-> FALSE ]

\* the moves that open the middle game: the last player spreads from its
\* corner, the first player fills what it is given and builds a chain of
\* two Filled cells anchored on its first cross, a cross of its own next to
\* the far end of that chain, and a single Filled cell beyond that cross
Opening ==
    LET q == BoardPlayers - 1
    IN  << [index |-> At(2, 2), player |-> q],
           [index |-> At(2, 1), player |-> q],
           [index |-> At(2, 1), player |-> 0],
           [index |-> At(3, 2), player |-> q],
           [index |-> At(3, 2), player |-> 0],
           [index |-> At(2, 3), player |-> 0],
           [index |-> At(1, 3), player |-> q],
           [index |-> At(1, 3), player |-> 0] >>

\* the state when the game on the open board starts: the opening and the
\* calls of the middle game are still to follow
BoardInitMid ==
    BoardSetUp(init_all(OpenBoard, visit_order(Interior, "ascending"), 1, "ascending"),
               Len(Opening) + MaxMidOps)

\* what a call leaves behind: the manager it returns, the call and its result
\* for the observer, and the log of the moves still to be undone
BoardStep(name, index, player, owner, r) ==
    /\ IF r.result = "Ok" THEN ops < opsBudget ELSE ops <= MaxProbeOps
    /\ board' = r.m
    /\ bPre' = board
    /\ bPre2' = bPre
    /\ bOp2' = bOp
    /\ bOp' = [name |-> name, index |-> index, player |-> player,
               result |-> r.result]
    /\ ops' = IF r.result = "Ok" THEN ops + 1 ELSE ops
    /\ history' = IF r.result # "Ok" THEN history
                  ELSE IF name = "make_move"
                  THEN Append(history, [index |-> index, owner |-> owner])
                  ELSE SubSeq(history, 1, Len(history) - 1)
    /\ opsBudget' = opsBudget
    /\ UNCHANGED pmVars

\* one call of make_move(index, player).  The caller of the documented usage
\* (bm.make_move(..)?) gives up on the first Err, so a failed call ends the run.
MakeMove(index, player, order) ==
    /\ bOp.result = "Ok"
    /\ index \in CallIndicesOn(board)
    /\ ~(ops >= opsBudget /\ ops > MaxProbeOps)
    /\ order \in OrdersOn(board)
    /\ BoardStep("make_move", index, player,
                 LoggedOwner(get(board, index), player),
                 make_move(board, index, player, order))

\* the player get_player returns for a cancel of index: the logged owner of
\* the last move when that move is the one undone
CancelOwner(index) ==
    IF history # <<>> /\ history[Len(history)].index = index
    THEN history[Len(history)].owner
    ELSE 0

\* one call of cancel_move(index, get_player): the caller undoes its last
\* logged move, get_player returning the logged owner of the filled cross,
\* or asks to cancel a cell that holds no move
CancelMove(index, order) ==
    /\ bOp.result = "Ok"
    /\ index \in CallIndicesOn(board)
    /\ ~(ops >= opsBudget /\ ops > MaxProbeOps)
    /\ order \in OrdersOn(board)
    /\ \/ history # <<>> /\ history[Len(history)].index = index
       \/ get(board, index).kind \in {"Empty", "Border"}
    /\ BoardStep("cancel_move", index, CancelOwner(index), CancelOwner(index),
                 cancel_move(board, index, CancelOwner(index), order))

(***************************************************************************)
(* Claims about the board engine                                           *)
(***************************************************************************)
\* what the contract observes of a cell: kind, owner, whether it is active
\* for each player, the important flag and the alive flag
CellView(c) ==
    [ kind      |-> c.kind,
      player    |-> c.player,
      active    |-> [p \in Players |-> is_active(c, p)],
      important |-> c.important,
      alive     |-> c.alive ]

BoardView(m) == [i \in Indices |-> CellView(m.cells[i])]

\* the last two calls were a successful make_move(i, p) and then cancel_move(i, ..)
BoardRoundTrip ==
    /\ bOp.name = "cancel_move"
    /\ bOp2.name = "make_move" /\ bOp2.result = "Ok"
    /\ bOp.index = bOp2.index

\* C1: move/cancel round trip: a legal make_move(i, p) followed immediately by
\* cancel_move(i, ..), the cross's original owner supplied when the cell is
\* Filled, returns Ok and leaves every cell with the kind, owner, per-player
\* activity, important flag and alive flag of the snapshot taken before the move.
C1_MoveCancelRoundTrip ==
    BoardRoundTrip => (bOp.result = "Ok" /\ BoardView(board) = BoardView(bPre2))

\* a cell of kind Cross owned by P, or an alive Filled cell owned by P
GivesReach(m, j, P) ==
    /\ m.cells[j].player = P
    /\ \/ m.cells[j].kind = "Cross"
       \/ m.cells[j].kind = "Filled" /\ m.cells[j].alive

\* an Empty or Cross cell other than a Cross of P itself
CountsFor(m, i, P) ==
    /\ m.cells[i].kind \in {"Empty", "Cross"}
    /\ ~(m.cells[i].kind = "Cross" /\ m.cells[i].player = P)

ActiveSet(m, P) == {i \in Interior : CountsFor(m, i, P) /\ is_active(m.cells[i], P)}

ReachSet(m, P) ==
    {i \in Interior : CountsFor(m, i, P) /\ \E j \in AdjSet(i) : GivesReach(m, j, P)}

\* C3: activation symmetry: after any sequence of successful make_move and
\* cancel_move calls, for every player P the Empty/Cross cells active for P are
\* exactly the Empty/Cross cells adjacent to a Cross(P) or an alive Filled(P),
\* a Cross of P itself not counted.
C3_ActivationSymmetry ==
    bOp.result = "Ok" => \A P \in Players : ActiveSet(board, P) = ReachSet(board, P)

BoardErrors == {"SelfFill", "DoubleFill", "BorderHit", "OutOfReach", "EmptyCancel"}

\* C4: whenever make_move or cancel_move returns an error, no cell and no
\* moves/crosses counter has been modified: the board is the one held before
\* the call.
C4_ErrorsLeaveBoard ==
    bOp.result \in BoardErrors => board = bPre

\* a fill of an opponent's cross that is out of reach was refused, on a board
\* that earlier moves have changed
C4_Witness ==
    /\ bOp.name = "make_move" /\ bOp.result = "OutOfReach"
    /\ bPre.cells[bOp.index].kind = "Cross"
    /\ ops > 0
    /\ board = bPre

\* C5: make_move(i, p) on an Empty cell that is not active for p fails with
\* OutOfReach; so does every placement on a board without any activation.
C5_EmptyOutOfReach ==
    (/\ bOp.name = "make_move"
     /\ bPre.cells[bOp.index].kind = "Empty"
     /\ ~is_active(bPre.cells[bOp.index], bOp.player))
        => bOp.result = "OutOfReach"

\* a placement was refused on a board where no cell has any activation
C5_Witness ==
    /\ bOp.name = "make_move" /\ bOp.result = "OutOfReach"
    /\ bPre.cells[bOp.index].kind = "Empty"
    /\ \A i \in Indices, p \in Players : ~is_active(bPre.cells[i], p)

\* C6: make_move(i, p) on a Cross fails with SelfFill whenever the owner is p,
\* active or not, fails with OutOfReach whenever the owner differs from p and
\* the cell is not active for p, and succeeds only for an opponent's cross
\* that is active for p.
C6_CrossArm ==
    (bOp.name = "make_move" /\ bPre.cells[bOp.index].kind = "Cross")
        => bOp.result =
              IF bPre.cells[bOp.index].player = bOp.player THEN "SelfFill"
              ELSE IF ~is_active(bPre.cells[bOp.index], bOp.player) THEN "OutOfReach"
              ELSE "Ok"

\* a player was refused a cross of its own that it placed in an earlier move
C6_Witness ==
    /\ bOp.name = "make_move" /\ bOp.result = "SelfFill"
    /\ bPre.cells[bOp.index].kind = "Cross"
    /\ bPre.cells[bOp.index].player = bOp.player
    /\ \E k \in 1 .. Len(history) : history[k].index = bOp.index

\* C7: rejection by cell kind alone: make_move on a Filled cell fails with
\* DoubleFill and on a Border cell with BorderHit, cancel_move on an Empty cell
\* fails with EmptyCancel and on a Border cell with BorderHit, whoever moves
\* and whatever the activation.
C7_KindRejections ==
    /\ (bOp.name = "make_move" /\ bPre.cells[bOp.index].kind = "Filled")
          => bOp.result = "DoubleFill"
    /\ (bOp.name = "make_move" /\ bPre.cells[bOp.index].kind = "Border")
          => bOp.result = "BorderHit"
    /\ (bOp.name = "cancel_move" /\ bPre.cells[bOp.index].kind = "Empty")
          => bOp.result = "EmptyCancel"
    /\ (bOp.name = "cancel_move" /\ bPre.cells[bOp.index].kind = "Border")
          => bOp.result = "BorderHit"

\* a move onto a filled cell was refused
C7_Witness ==
    /\ bOp.name = "make_move" /\ bOp.result = "DoubleFill"
    /\ bPre.cells[bOp.index].kind = "Filled"

\* the chain of the Filled cell i on board m
ChainOf(m, i) == chain(m.cells, i)

\* cell c of board m is adjacent to a Cross of player owner
TouchesCrossOf(m, c, owner) ==
    \E j \in AdjSet(c) : m.cells[j].kind = "Cross" /\ m.cells[j].player = owner

\* the Filled cells of board m
FilledCells(m) == {i \in Interior : m.cells[i].kind = "Filled"}

\* C13: after any sequence of successful moves, every alive Filled cell
\* belongs to a chain that contains an important member adjacent to a Cross
\* of the chain's owner.
C13_NoOrphanedAnchors ==
    bOp.result = "Ok" =>
        \A i \in FilledCells(board) :
            board.cells[i].alive =>
                \E c \in ChainOf(board, i) :
                    /\ board.cells[c].important
                    /\ TouchesCrossOf(board, c, board.cells[i].player)

\* C14: after any sequence of successful make_move/cancel_move calls, a
\* Filled cell is alive if and only if some member of its chain is adjacent
\* to a Cross owned by the chain's owner.
C14_AliveIsChainWide ==
    bOp.result = "Ok" =>
        \A i \in FilledCells(board) :
            board.cells[i].alive <=>
                \E c \in ChainOf(board, i) :
                    TouchesCrossOf(board, c, board.cells[i].player)

(* C20: when a player successfully fills an opponent's Cross and no alive  *)
(* Filled cell of that player is adjacent, the new Filled cell ends the    *)
(* move important, and exactly one adjacent Cross of that player has its   *)
(* important flag set by the move: one such Cross is important afterwards  *)
(* and the flag of every other adjacent Cross of that player is unchanged. *)
AnchorlessFill ==
    /\ bOp.name = "make_move"
    /\ bOp.result = "Ok"
    /\ bPre.cells[bOp.index].kind = "Cross"
    /\ ~is_alive_filled_around(bPre, bOp.index, bOp.player)

OwnCrossesAround ==
    {j \in AdjSet(bOp.index) :
        /\ board.cells[j].kind = "Cross"
        /\ board.cells[j].player = bOp.player}

C20_NewAnchorPair ==
    AnchorlessFill =>
        /\ board.cells[bOp.index].important
        /\ \E j \in OwnCrossesAround :
            /\ board.cells[j].important
            /\ \A k \in OwnCrossesAround \ {j} :
                board.cells[k].important = bPre.cells[k].important

\* the last call was a successful make_move onto an Empty cell
CrossPlaced ==
    /\ bOp.name = "make_move"
    /\ bOp.result = "Ok"
    /\ bPre.cells[bOp.index].kind = "Empty"

\* the dead Filled cells of the mover around the target before the move
DeadOwnFilledAround ==
    {j \in AdjSet(bOp.index) :
        /\ bPre.cells[j].kind = "Filled"
        /\ bPre.cells[j].player = bOp.player
        /\ ~bPre.cells[j].alive}

\* C21: after a successful make_move onto an Empty cell active for player p
\* the cell is Cross(p), and it is important if and only if the activation
\* pass revived an adjacent dead Filled(p) cell, that is if and only if such
\* a cell was adjacent when the move was made.
C21_CrossImportantIffRevived ==
    CrossPlaced =>
        /\ is_active(bPre.cells[bOp.index], bOp.player)
        /\ board.cells[bOp.index].kind = "Cross"
        /\ board.cells[bOp.index].player = bOp.player
        /\ board.cells[bOp.index].important <=> DeadOwnFilledAround # {}

\* a cross was placed next to a dead Filled cell of the mover and is important
C21_Witness ==
    /\ CrossPlaced
    /\ DeadOwnFilledAround # {}
    /\ board.cells[bOp.index].important

\* the kinds of cell each accessor may be called on
Disciplined ==
    {[op |-> "player", kind |-> k] : k \in {"Cross", "Filled"}}
        \cup {[op |-> o, kind |-> k] :
                 o \in {"is_active", "activate", "deactivate"},
                 k \in {"Empty", "Cross"}}
        \cup {[op |-> o, kind |-> k] :
                 o \in {"is_important", "set_important"}, k \in {"Cross", "Filled"}}
        \cup {[op |-> o, kind |-> "Filled"] : o \in {"is_alive", "set_alive"}}
        \cup {[op |-> "cross_out", kind |-> "Empty"],
              [op |-> "fill", kind |-> "Cross"],
              [op |-> "remove_fill", kind |-> "Filled"],
              [op |-> "remove_cross", kind |-> "Cross"]}

\* the accessor calls of the last call of make_move or cancel_move, the
\* traverse walking in the given order
LastCalls(order) ==
    IF bOp.name = "make_move"
    THEN make_move_calls(bPre, bOp.index, bOp.player, order)
    ELSE IF bOp.name = "cancel_move"
    THEN cancel_move_calls(bPre, bOp.index, bOp.player, order)
    ELSE {}

\* C22: during any make_move or cancel_move the engine calls player() only on
\* Cross/Filled cells, is_active/activate/deactivate only on Empty/Cross
\* cells, is_important/set_important only on Cross/Filled cells,
\* is_alive/set_alive only on Filled cells, and applies cross_out only to
\* Empty, fill only to Cross, remove_fill only to Filled and remove_cross
\* only to Cross cells.
C22_CellKindDiscipline ==
    \A order \in Orders : LastCalls(order) \subseteq Disciplined

\* a fill was cancelled, and the call walked a chain of Filled cells to
\* kill or revive it, deactivated an Empty cell and activated a Cross
C22_Witness ==
    /\ bOp.name = "cancel_move" /\ bOp.result = "Ok"
    /\ bPre.cells[bOp.index].kind = "Filled"
    /\ \E order \in Orders :
          {[op |-> "remove_fill", kind |-> "Filled"],
           [op |-> "set_alive", kind |-> "Filled"],
           [op |-> "deactivate", kind |-> "Empty"],
           [op |-> "activate", kind |-> "Cross"],
           [op |-> "set_important", kind |-> "Cross"]} \subseteq LastCalls(order)

\* C23: after every completed make_move/cancel_move all cells of one chain
\* carry the same alive value: a revive leaves every member alive, the cell
\* it was started from included, and a kill leaves every member dead, the
\* anchor it was started from included.
C23_ChainUniformAlive ==
    bOp.result = "Ok" =>
        \A i \in FilledCells(board) :
            \A c \in ChainOf(board, i) :
                board.cells[c].alive = board.cells[i].alive

\* C24: after any sequence of successful make_move/cancel_move calls, for
\* every player P, moves_counter(P) equals the number of cells P may move
\* onto: the Empty cells active for P plus the Cross cells of other owners
\* active for P.
C24_MovesCounter ==
    bOp.result = "Ok" =>
        \A P \in Players : board.moves[P] = Cardinality(ActiveSet(board, P))

\* the last call was a successful cancel_move on a Filled cell
FillCancelled ==
    /\ bOp.name = "cancel_move"
    /\ bOp.result = "Ok"
    /\ bPre.cells[bOp.index].kind = "Filled"

\* C25: after a successful cancel_move on a Filled cell the resulting Cross
\* is active for exactly those players, other than its owner, that have an
\* adjacent Cross or an adjacent alive Filled cell.
C25_CancelledFillReactivated ==
    FillCancelled =>
        /\ board.cells[bOp.index].kind = "Cross"
        /\ \A P \in Players \ {board.cells[bOp.index].player} :
              is_active(board.cells[bOp.index], P)
                  <=> \E j \in AdjSet(bOp.index) : GivesReach(board, j, P)

\* the last call filled or removed an important Cross; its owner before the call
AnchorCrossGone ==
    /\ bOp.name \in {"make_move", "cancel_move"}
    /\ bOp.result = "Ok"
    /\ bPre.cells[bOp.index].kind = "Cross"
    /\ bPre.cells[bOp.index].important

\* the Crosses of player P, other than the target of the last call, next to
\* a member of the chain of the Filled cell f as it was before the call
OtherCrossesAt(f, P) ==
    {j \in Interior \ {bOp.index} :
        /\ bPre.cells[j].kind = "Cross"
        /\ bPre.cells[j].player = P
        /\ \E c \in ChainOf(bPre, f) : j \in AdjSet(c)}

\* the alive chains the last call had to anchor again: those of the
\* important Filled cells of the owner next to the important Cross that is gone
ReAnchored ==
    IF ~AnchorCrossGone THEN {}
    ELSE {f \in AdjSet(bOp.index) :
             /\ bPre.cells[f].kind = "Filled"
             /\ bPre.cells[f].player = bPre.cells[bOp.index].player
             /\ bPre.cells[f].important
             /\ \A c \in ChainOf(bPre, f) : bPre.cells[c].alive
             /\ OtherCrossesAt(f, bPre.cells[f].player) # {}}

\* C26: when an important Cross of player P is filled or removed and the
\* chain of an adjacent important Filled(P) cell has another Cross(P) next to
\* one of its members, the chain is not killed, a Cross(P) next to the chain
\* is important afterwards and so is a member of that chain next to it.
C26_ReAnchoredNotKilled ==
    \A f \in ReAnchored :
        /\ \A c \in ChainOf(bPre, f) : board.cells[c].alive
        /\ \E j \in OtherCrossesAt(f, bPre.cells[f].player) :
              /\ board.cells[j].important
              /\ \E c \in ChainOf(bPre, f) \cap AdjSet(j) : board.cells[c].important

\* the last call filled or removed a Cross
CrossGone ==
    /\ bOp.name \in {"make_move", "cancel_move"}
    /\ bOp.result = "Ok"
    /\ bPre.cells[bOp.index].kind = "Cross"

\* the steps of the cascade of the last call
LastSteps(order) ==
    cross_gone_steps(bPre, bOp.name, bOp.index, bOp.player, order)

ChainSteps == {"search", "anchor", "kill"}

\* C27: in every make_move or cancel_move that fills or removes an important
\* Cross, every search, kill and re-anchoring of the adjacent chains is done
\* before the first activation edge is removed from a neighbour of the
\* target; when the Cross was not important there is no search and no kill,
\* and no Filled cell and no other Cross of its owner changes its flags.
C27_ChainsBeforeEdges ==
    CrossGone =>
        /\ \A order \in Orders :
              LET s == LastSteps(order)
              IN  /\ \A a, b \in 1 .. Len(s) :
                        (s[a].step = "edge" /\ s[b].step \in ChainSteps) => b < a
                  /\ bPre.cells[bOp.index].important
                        \/ \A a \in 1 .. Len(s) : s[a].step = "edge"
        /\ bPre.cells[bOp.index].important
              \/ \A i \in Interior \ {bOp.index} :
                    (/\ bPre.cells[i].kind \in {"Cross", "Filled"}
                     /\ bPre.cells[i].player = bPre.cells[bOp.index].player)
                        => /\ board.cells[i].important = bPre.cells[i].important
                           /\ board.cells[i].alive = bPre.cells[i].alive

\* an important Cross was filled or removed: a chain next to it was killed
\* and after that an edge was removed from a neighbour of the target
C27_Witness ==
    /\ CrossGone
    /\ bPre.cells[bOp.index].important
    /\ \E order \in Orders :
          LET s == LastSteps(order)
          IN  \E a, b \in 1 .. Len(s) :
                 a < b /\ s[a].step = "kill" /\ s[b].step = "edge"

\* the important Filled anchors whose chain the last call killed: those next
\* to the important Cross that is gone, with no other Cross of the owner
\* next to their chain
KilledAnchors ==
    IF ~AnchorCrossGone THEN {}
    ELSE {f \in AdjSet(bOp.index) :
             /\ bPre.cells[f].kind = "Filled"
             /\ bPre.cells[f].player = bPre.cells[bOp.index].player
             /\ bPre.cells[f].important
             /\ OtherCrossesAt(f, bPre.cells[f].player) = {}}

\* cell f of board m has an important Cross or Filled neighbour of player P
PairedOn(m, f, P) ==
    \E j \in AdjSet(f) :
        /\ m.cells[j].kind \in {"Cross", "Filled"}
        /\ m.cells[j].player = P
        /\ m.cells[j].important

\* C28: when the cascade kills a chain starting from an important Filled
\* anchor, the anchor's important flag is cleared if and only if, after the
\* kill, no adjacent Cross or Filled cell of the same owner is important.
C28_PairingRule ==
    \A f \in KilledAnchors :
        ~board.cells[f].important <=> ~PairedOn(board, f, bPre.cells[f].player)

\* a chain was killed and its anchor, left without an important neighbour,
\* is no longer important
C28_Witness ==
    \E f \in KilledAnchors :
        /\ ~board.cells[f].important
        /\ ~PairedOn(board, f, bPre.cells[f].player)

\* a chain was killed and its anchor, next to an important cell of its
\* owner, is still important
C28_WitnessPaired ==
    \E f \in KilledAnchors :
        /\ board.cells[f].important
        /\ PairedOn(board, f, bPre.cells[f].player)

\* the Filled cells at which the activation pass of the last call entered a
\* dead chain, the traverse walking in the given order
LastEntered(order) ==
    IF bOp.result = "Ok" /\ bOp.index \in Interior
    THEN activation_entered(bPre, bOp.name, bOp.index, bOp.player, order)
    ELSE {}

\* C29: whenever the activation pass of a make_move, or of a cancel_move of
\* a fill, revives a dead chain, at the end of the call the target cell and
\* the Filled cell at which the chain was entered are both important.
C29_RevivePairImportant ==
    \A order \in Orders :
        \A e \in LastEntered(order) :
            /\ board.cells[bOp.index].important
            /\ board.cells[e].important

\* a call revived a dead chain: the target and the cell the chain was
\* entered at are important
C29_Witness ==
    \E order \in Orders :
        \E e \in LastEntered(order) :
            /\ bPre.cells[e].kind = "Filled" /\ ~bPre.cells[e].alive
            /\ board.cells[bOp.index].important
            /\ board.cells[e].important

\* the rebuilds of overheated cells that deactivate_remaining_around ran in
\* the last call
LastRebuilds(order) ==
    IF bOp.result = "Ok" /\ bOp.index \in Interior
    THEN deactivation_rebuilds(bPre, bOp.name, bOp.index, bOp.player, order)
    ELSE {}

\* C30: when a deactivation for player P brings the counter of an overheated
\* Empty or Cross cell to zero, the cell is afterwards active for a player Q
\* exactly when a Cross of Q or an alive Filled cell of Q is adjacent (Q not
\* the owner if the cell is a Cross), and moves_counter(P) is decremented
\* exactly when the cell is no longer active for P.
C30_OverheatRebuild ==
    \A order \in Orders :
        \A b \in LastRebuilds(order) :
            /\ \A Q \in Players :
                  b.active[Q] <=> (b.around[Q] /\ ~(b.kind = "Cross" /\ b.owner = Q))
            /\ b.decremented <=> ~b.active[b.player]

\* the Cross cells that are active for their own owner
OwnActiveCrosses(m) ==
    {i \in Interior : m.cells[i].kind = "Cross"
                      /\ is_active(m.cells[i], m.cells[i].player)}

\* C31: own-owner activation is never set: in every board state reached by
\* successful make_move/cancel_move calls no Cross cell is active for its own
\* owner, and the debug assertion of try_deactivate has never fired.
C31_NoOwnActivation ==
    bOp.result = "Ok" => (OwnActiveCrosses(board) = {} /\ ~board.asserted)

\* the activation pass of the last call entered a chain of player P to
\* revive it, and a Cross of P other than the target of the call lies next to
\* a member of that chain: revive_strategy has passed that Cross to
\* try_activate for its own owner
C31_Witness ==
    /\ bOp.result = "Ok"
    /\ \E order \in Orders : \E e \in LastEntered(order) :
          \E f \in chain(board.cells, e) : \E j \in AdjSet(f) \ {bOp.index} :
              /\ bPre.cells[j].kind = "Cross"
              /\ board.cells[j].kind = "Cross"
              /\ board.cells[j].player = board.cells[e].player

\* the kind of a cell and, for a Cross or Filled cell, its owner
KindOwner(c) ==
    [kind |-> c.kind, player |-> IF c.kind \in {"Cross", "Filled"} THEN c.player ELSE 0]

\* what the last call, a successful one, has made of its target cell
TargetChanged ==
    LET was == bPre.cells[bOp.index]
        now == board.cells[bOp.index]
    IN  IF bOp.name = "make_move"
        THEN \/ /\ was.kind = "Empty"
                /\ KindOwner(now) = [kind |-> "Cross", player |-> bOp.player]
             \/ /\ was.kind = "Cross"
                /\ KindOwner(now) = [kind |-> "Filled", player |-> bOp.player]
                /\ now.alive
        ELSE \/ /\ was.kind = "Cross"
                /\ KindOwner(now) = [kind |-> "Empty", player |-> 0]
             \/ /\ was.kind = "Filled"
                /\ KindOwner(now) = [kind |-> "Cross", player |-> bOp.player]

\* C35: a successful make_move changes the kind/owner of exactly the target
\* cell (Empty -> Cross(player), or Cross -> Filled(player) with alive set),
\* a successful cancel_move of exactly the target cell (Cross -> Empty, or
\* Filled -> Cross(supplied player)); no other cell's kind or owner changes in
\* any call, and Border cells are never modified.
C35_OnlyTargetChangesKind ==
    bOp.name \in {"make_move", "cancel_move"} =>
        /\ \A i \in Indices \ {bOp.index} :
              KindOwner(board.cells[i]) = KindOwner(bPre.cells[i])
        /\ \A i \in Indices : bPre.cells[i].kind = "Border" => board.cells[i] = bPre.cells[i]
        /\ IF bOp.result = "Ok" THEN TargetChanged
           ELSE KindOwner(board.cells[bOp.index]) = KindOwner(bPre.cells[bOp.index])

\* a fill was cancelled and the cross went back to a player other than the
\* one who had filled it, while flags of other cells changed with the call
C35_Witness ==
    /\ bOp.name = "cancel_move" /\ bOp.result = "Ok"
    /\ bPre.cells[bOp.index].kind = "Filled"
    /\ bPre.cells[bOp.index].player # bOp.player
    /\ board.cells[bOp.index].kind = "Cross"
    /\ \E j \in Interior \ {bOp.index} : board.cells[j] # bPre.cells[j]

\* the Cross cells of player P on board m
CrossesOf(m, P) ==
    {i \in Interior : m.cells[i].kind = "Cross" /\ m.cells[i].player = P}

\* C38: crosses counter invariant: after any sequence of make_move and
\* cancel_move calls on a board that started consistent, for every player P
\* the crosses counter of P equals the number of Cross cells owned by P.
C38_CrossesCounter ==
    \A P \in Players : board.crosses[P] = Cardinality(CrossesOf(board, P))

\* a fill was cancelled and the cross counted again for the player it went
\* back to, in a game in which the filler had placed a cross before
C38_Witness ==
    /\ bOp.name = "cancel_move" /\ bOp.result = "Ok"
    /\ bPre.cells[bOp.index].kind = "Filled"
    /\ board.crosses[bOp.player] = bPre.crosses[bOp.player] + 1
    /\ Cardinality(CrossesOf(board, bPre.cells[bOp.index].player)) >= 2

\* the cells next to i that are a Cross of P or an alive Filled cell of P
SourcesOf(m, i, P) == {j \in AdjSet(i) : GivesReach(m, j, P)}

\* C39: activation counts match their sources: in every reachable board
\* state, for every Empty or Cross cell c that is not overheated and every
\* player P other than c's owner, P's activation count on c equals the number
\* of cells adjacent to c that are Cross(P) or alive Filled(P).
C39_CountsMatchSources ==
    \A i \in Interior : \A P \in Players :
        (CountsFor(board, i, P) /\ ~board.cells[i].overheat)
            => board.cells[i].act[P] = Cardinality(SourcesOf(board, i, P))

(***************************************************************************)
(* Specifications                                                          *)
(***************************************************************************)
\* the turn manager left as created, for the board's specification
PMIdle == PMCreated(1, 2, 0)

\* the board left as set up, for the turn manager's specification
BoardIdle == BoardSetUp(StartedBoard, 0)

Init == BoardInit /\ PMIdle

Next ==
    \/ \E index \in CallIndices, player \in Players, order \in Orders :
          MakeMove(index, player, order)
    \/ \E index \in CallIndices, order \in Orders : CancelMove(index, order)

\* the board engine under make_move / cancel_move
Spec == Init /\ [][Next]_vars

InitLong == BoardInitLong /\ PMIdle

\* the board engine under make_move / cancel_move, one long game
SpecLong == InitLong /\ [][Next]_vars

InitMid == BoardInitMid /\ PMIdle

\* while the opening lasts the caller makes its next move, after it any call
Scripted(index, player, order) ==
    IF ops >= Len(Opening) THEN TRUE
    ELSE /\ order = "ascending"
         /\ Opening[ops + 1] = [index |-> index, player |-> player]

NextMid ==
    \/ \E index \in CallIndices, player \in Players, order \in Orders :
          Scripted(index, player, order) /\ MakeMove(index, player, order)
    \/ \E index \in CallIndices, order \in Orders :
          ops >= Len(Opening) /\ CancelMove(index, order)

\* the board engine under make_move / cancel_move, through the opening into
\* the middle game
SpecMid == InitMid /\ [][NextMid]_vars

InitPM == PMInit /\ BoardIdle

NextPM ==
    \/ \E oom \in Preds(MaxPlayers), ooc \in Preds(MaxPlayers) : Advance(oom, ooc)
    \/ Reverse

\* the turn manager under advance / reverse
SpecPM == InitPM /\ [][NextPM]_vars

InitPMLong == PMInitLong /\ BoardIdle

\* the turn manager under advance / reverse, one long three-player game
SpecPMLong == InitPMLong /\ [][NextPM]_vars

====
